---- MODULE Spec2Model ----
(***************************************************************************)
(* Model of the Pomodoro timer engine (TimerService) of electron-pomodoro. *)
(*                                                                         *)
(* The service owns one Timer (or null) and one interval handle (or null). *)
(* The Node event loop owns the set of scheduled intervals.                *)
(* Every public method is one action; the interval callback is             *)
(* the Tick action.  Each handler is written as an operator on a record of *)
(* the service's fields, so that a handler calling another handler         *)
(* (startTimer -> stopTimer -> clearInterval) is the composition the code  *)
(* performs.  The history variable emitted records every pair of           *)
(* this.callbacks.onX?.(...) and this.emit("x", ...) the service performs, *)
(* whoever is subscribed; the subscribers (callbacks, listeners) are       *)
(* passive and not part of the state.  The timestamps startedAt, pausedAt  *)
(* and completedAt enter only through the elapsed time sinceStart.         *)
(***************************************************************************)
EXTENDS Integers, Sequences, FiniteSets, TLC

VARIABLES
    timer,       \* TimerService.timer: a Timer record or NullTimer
    intervalId,  \* TimerService.intervalId: a handle or NoInterval
    intervals,   \* handles the event loop currently has scheduled
    sinceStart,  \* Date.now() - timer.startedAt, in seconds (0 without timer)
    emitted,     \* history: the emit() calls of the last handler, in order
    path,        \* history: getState() before and after each assignment of the last handler
    tickCount,   \* history: decrements applied to the present timer
    completions, \* history: complete events emitted since the last start event
    lastOp       \* history: the last handler, its input and its outcome

vars == <<timer, intervalId, intervals, sinceStart,
          emitted, path, tickCount, completions, lastOp>>

(* The settings service (SettingsService) and the files it owns *)
VARIABLES
    settings,         \* SettingsService.settings: the in-memory record
    isInitialized,    \* SettingsService.isInitialized
    autoSaveEnabled,  \* SettingsService.autoSaveEnabled
    settingsFile,     \* content of settings.json on disk
    backupFiles,      \* contents of the settings.json.backup.* files on disk
    pending,          \* the async calls of the service suspended at an I/O await, oldest first
    callsMade,        \* history: calls of the service made so far
    sEmitted,         \* history: the emit() calls of the last step, in order
    sLast             \* history: the last step, its input and its outcome

settingsVars == <<settings, isInitialized, autoSaveEnabled, settingsFile,
                  backupFiles, pending, callsMade, sEmitted, sLast>>

(* The statistics service (StatsService) and the files it owns *)
VARIABLES
    stats,            \* StatsService.stats: the in-memory record
    statsInitialized, \* StatsService.isInitialized
    statsFile,        \* content of stats.json on disk
    statsBackups,     \* contents of the stats.json.backup.* files on disk
    statsPending,     \* the saves and async calls of the service suspended at an I/O await
    statsCalls,       \* history: calls of the service made so far
    statsFailed,      \* history: a write started by incrementSession/addTime has failed
    stLast            \* history: the last step, its input and its outcome

statsVars == <<stats, statsInitialized, statsFile, statsBackups,
               statsPending, statsCalls, statsFailed, stLast>>

allVars == <<vars, settingsVars, statsVars>>

----------------------------------------------------------------------------
(* Bounds of the model *)

MaxDuration == 2        \* valid durations offered to startTimer: 1..MaxDuration minutes
MaxHandles == 2         \* interval handles the event loop can hand out
MaxPauseSteps == 1      \* ElapseStep-long waits allowed on top of a timer's own duration

(* Program constants *)

SecondsPerMinute == 60
TickSeconds == 1
MAX_DURATION_MINUTES == 1440
MIN_DURATION_MINUTES == 1

TimerTypes == {"work", "shortBreak", "longBreak"}

(* Encodings of JavaScript values *)

NaN == 999999           \* the number NaN: every comparison with it is false
NoInterval == 0         \* intervalId === null
NullTimer == [null |-> TRUE]
NoConfig == [null |-> TRUE]
NoType == ""            \* a falsy config.type (null, undefined, "")

ElapseStep == 30        \* seconds of wall time one Elapse step lets pass

MaxWallSecs == MaxDuration * SecondsPerMinute + MaxPauseSteps * ElapseStep

Handles == 1..MaxHandles

JsLe(a, b) == a # NaN /\ b # NaN /\ a <= b
JsLt(a, b) == a # NaN /\ b # NaN /\ a < b
JsGt(a, b) == a # NaN /\ b # NaN /\ a > b
JsMul(a, b) == IF a = NaN \/ b = NaN THEN NaN ELSE a * b
JsDec(a) == IF a = NaN THEN NaN ELSE a - 1

Num(v) == [typeof |-> "number", val |-> v]
Str(v) == [typeof |-> "string", val |-> v]

----------------------------------------------------------------------------
(* Inputs offered to startTimer *)

ValidConfigs ==
    [type : TimerTypes, duration : {Num(d) : d \in 1..MaxDuration}]

(* One malformed config per way of being malformed: no config, a falsy or  *)
(* unknown type, a duration that is zero, negative, above the maximum, NaN *)
(* or not of type number.                                                  *)
MalformedConfigs ==
    {NoConfig}
        \cup [type : {"invalid", NoType}, duration : {Num(1)}]
        \cup [type : {"work"},
              duration : {Num(0), Num(-5), Num(MAX_DURATION_MINUTES + 1),
                          Num(NaN), Str(1)}]

ConfigInputs == ValidConfigs \cup MalformedConfigs

----------------------------------------------------------------------------
(* The service as a record, and its read-only accessors *)

Svc == [timer |-> timer, intervalId |-> intervalId, intervals |-> intervals,
        sinceStart |-> sinceStart,
        emitted |-> <<>>, path |-> <<>>, tickCount |-> tickCount,
        completions |-> completions, outcome |-> "ok"]

getState(s) == IF s.timer = NullTimer THEN "idle" ELSE s.timer.state

getRemainingTime(s) == IF s.timer = NullTimer THEN 0 ELSE s.timer.remainingTime

isRunning(s) == s.timer # NullTimer /\ s.timer.state = "running"

isPaused(s) == s.timer # NullTimer /\ s.timer.state = "paused"

(* One this.callbacks.onX?.(...) followed by this.emit("x", ...).  The     *)
(* event remembers what a listener reading the service would see.          *)
Emit(s, name, type, arg) ==
    [s EXCEPT !.emitted = Append(@, [name |-> name, type |-> type, arg |-> arg,
                                     state |-> getState(s),
                                     remaining |-> getRemainingTime(s)]),
              !.completions = IF name = "complete" THEN @ + 1
                              ELSE IF name = "start" THEN 0 ELSE @]

(* Assignment to this.timer (or to this.timer.state), recorded on the path *)
SetTimer(s, t) ==
    LET s1 == [s EXCEPT !.timer = t]
    IN  [s1 EXCEPT !.path = Append(@, getState(s1))]

----------------------------------------------------------------------------
(* Private helpers *)

clearInterval(s) ==
    IF s.intervalId # NoInterval
    THEN [s EXCEPT !.intervals = @ \ {s.intervalId}, !.intervalId = NoInterval]
    ELSE s

(* setInterval(): the event loop hands out a handle it is not using *)
FreshHandle(s) == CHOOSE h \in Handles : h \notin s.intervals

startInterval(s) ==
    LET s1 == clearInterval(s)
        h  == FreshHandle(s1)
    IN  [s1 EXCEPT !.intervals = @ \cup {h}, !.intervalId = h]

validateTimerConfig(config) ==
    IF config = NoConfig THEN "Timer config is required"
    ELSE IF config.type = NoType THEN "Timer type is required"
    ELSE IF config.type \notin TimerTypes THEN "Invalid timer type"
    ELSE IF config.duration.typeof # "number" \/ JsLe(config.duration.val, 0)
         THEN "Timer duration must be a positive number"
    ELSE IF JsLt(config.duration.val, MIN_DURATION_MINUTES)
            \/ JsGt(config.duration.val, MAX_DURATION_MINUTES)
         THEN "Timer duration must be between 1 and 1440 minutes"
    ELSE "ok"

----------------------------------------------------------------------------
(* Public methods *)

(* stopTimer reading the remaining time after the timer was discarded *)
stopTimer_ReadsAfterReset(s) ==
    IF s.timer = NullTimer \/ s.timer.state = "idle"
    THEN [s EXCEPT !.outcome = "noop"]
    ELSE LET type == s.timer.type
             s1 == clearInterval(s)
             s2 == SetTimer(s1, [s1.timer EXCEPT !.state = "idle"])
             s3 == SetTimer(s2, NullTimer)
             s4 == [s3 EXCEPT !.sinceStart = 0, !.tickCount = 0]
         IN  Emit(s4, "stop", type, getRemainingTime(s4))

(* stopTimer announcing a stop although there is no timer *)
stopTimer_StopsNothing(s) ==
    IF s.timer = NullTimer \/ s.timer.state = "idle"
    THEN Emit(s, "stop", "none", 0)
    ELSE LET type == s.timer.type
             remainingTime == s.timer.remainingTime
             s1 == clearInterval(s)
             s2 == SetTimer(s1, [s1.timer EXCEPT !.state = "idle"])
             s3 == SetTimer(s2, NullTimer)
             s4 == [s3 EXCEPT !.sinceStart = 0, !.tickCount = 0]
         IN  Emit(s4, "stop", type, remainingTime)

stopTimer(s) ==
    IF s.timer = NullTimer \/ s.timer.state = "idle"
    THEN [s EXCEPT !.outcome = "noop"]
    ELSE LET type == s.timer.type
             remainingTime == s.timer.remainingTime
             s1 == clearInterval(s)
             s2 == SetTimer(s1, [s1.timer EXCEPT !.state = "idle"])
             s3 == SetTimer(s2, NullTimer)
             s4 == [s3 EXCEPT !.sinceStart = 0, !.tickCount = 0]
         IN  Emit(s4, "stop", type, remainingTime)

(* startTimer forgetting the conversion of minutes to seconds *)
startTimer_NoSeconds(s, config) ==
    IF validateTimerConfig(config) # "ok"
    THEN [s EXCEPT !.outcome = "throw"]
    ELSE LET s1 == IF s.timer # NullTimer /\ s.timer.state = "running"
                   THEN stopTimer(s) ELSE s
             s2 == SetTimer(s1, [type |-> config.type,
                                 duration |-> config.duration.val,
                                 remainingTime |-> config.duration.val,
                                 state |-> "running"])
             s3 == [s2 EXCEPT !.sinceStart = 0, !.tickCount = 0, !.outcome = "ok"]
             s4 == startInterval(s3)
         IN  Emit(s4, "start", config.type, config.duration.val)

startTimer(s, config) ==
    IF validateTimerConfig(config) # "ok"
    THEN [s EXCEPT !.outcome = "throw"]
    ELSE LET s1 == IF s.timer # NullTimer /\ s.timer.state = "running"
                   THEN stopTimer(s) ELSE s
             s2 == SetTimer(s1, [type |-> config.type,
                                 duration |-> config.duration.val,
                                 remainingTime |-> JsMul(config.duration.val, SecondsPerMinute),
                                 state |-> "running"])
             s3 == [s2 EXCEPT !.sinceStart = 0, !.tickCount = 0, !.outcome = "ok"]
             s4 == startInterval(s3)
         IN  Emit(s4, "start", config.type, config.duration.val)

(* pauseTimer guarding on the presence of a timer only *)
pauseTimer_AnyTimer(s) ==
    IF s.timer = NullTimer
    THEN [s EXCEPT !.outcome = "noop"]
    ELSE LET s1 == clearInterval(s)
             s2 == SetTimer(s1, [s1.timer EXCEPT !.state = "paused"])
         IN  Emit(s2, "pause", s2.timer.type, s2.timer.remainingTime)

(* pauseTimer leaving the interval scheduled *)
pauseTimer_KeepsInterval(s) ==
    IF s.timer = NullTimer \/ s.timer.state # "running"
    THEN [s EXCEPT !.outcome = "noop"]
    ELSE LET s2 == SetTimer(s, [s.timer EXCEPT !.state = "paused"])
         IN  Emit(s2, "pause", s2.timer.type, s2.timer.remainingTime)

pauseTimer(s) ==
    IF s.timer = NullTimer \/ s.timer.state # "running"
    THEN [s EXCEPT !.outcome = "noop"]
    ELSE LET s1 == clearInterval(s)
             s2 == SetTimer(s1, [s1.timer EXCEPT !.state = "paused"])
         IN  Emit(s2, "pause", s2.timer.type, s2.timer.remainingTime)

(* resumeTimer correcting the remaining time for the wall time elapsed *)
resumeTimer_DriftCorrected(s) ==
    IF s.timer = NullTimer \/ s.timer.state # "paused"
    THEN [s EXCEPT !.outcome = "noop"]
    ELSE LET left == IF s.timer.remainingTime = NaN THEN NaN
                     ELSE IF s.timer.duration * SecondsPerMinute > s.sinceStart
                          THEN s.timer.duration * SecondsPerMinute - s.sinceStart
                          ELSE 1
             s1 == SetTimer(s, [s.timer EXCEPT !.state = "running",
                                               !.remainingTime = left])
             s2 == startInterval(s1)
         IN  Emit(s2, "resume", s2.timer.type, s2.timer.remainingTime)

resumeTimer(s) ==
    IF s.timer = NullTimer \/ s.timer.state # "paused"
    THEN [s EXCEPT !.outcome = "noop"]
    ELSE LET s1 == SetTimer(s, [s.timer EXCEPT !.state = "running"])
             s2 == startInterval(s1)
         IN  Emit(s2, "resume", s2.timer.type, s2.timer.remainingTime)

(* destroy forgetting to clear the interval *)
destroy_KeepsInterval(s) ==
    LET s2 == SetTimer(s, NullTimer)
    IN  [s2 EXCEPT !.sinceStart = 0, !.tickCount = 0]

destroy(s) ==
    LET s1 == clearInterval(s)
        s2 == SetTimer(s1, NullTimer)
    IN  [s2 EXCEPT !.sinceStart = 0, !.tickCount = 0]

----------------------------------------------------------------------------
(* The interval callback *)

(* the elapsed minutes rounded to the nearest minute *)
ActualDuration_Rounded(s) == (s.sinceStart + SecondsPerMinute \div 2) \div SecondsPerMinute

(* Math.floor((Date.now() - startedAt.getTime()) / 1000 / 60) *)
ActualDuration(s) == s.sinceStart \div SecondsPerMinute

(* onTimerComplete forgetting to discard the completed timer *)
onTimerComplete_KeepsTimer(s) ==
    IF s.timer = NullTimer THEN s
    ELSE LET type == s.timer.type
             actualDuration == ActualDuration(s)
             s1 == clearInterval(s)
             s2 == SetTimer(s1, [s1.timer EXCEPT !.state = "completed",
                                                 !.remainingTime = 0])
         IN  Emit(s2, "complete", type, actualDuration)

onTimerComplete(s) ==
    IF s.timer = NullTimer THEN s
    ELSE LET type == s.timer.type
             actualDuration == ActualDuration(s)
             s1 == clearInterval(s)
             s2 == SetTimer(s1, [s1.timer EXCEPT !.state = "completed",
                                                 !.remainingTime = 0])
             s3 == Emit(s2, "complete", type, actualDuration)
             s4 == SetTimer(s3, NullTimer)
         IN  [s4 EXCEPT !.sinceStart = 0, !.tickCount = 0]

(* the interval callback reporting the tick before it decrements *)
intervalCallback_EmitBeforeDecrement(s) ==
    IF s.timer = NullTimer \/ s.timer.state # "running"
    THEN [clearInterval(s) EXCEPT !.outcome = "noop"]
    ELSE LET s1 == Emit(s, "tick", "none", s.timer.remainingTime)
             s2 == [s1 EXCEPT !.timer.remainingTime = JsDec(@),
                              !.tickCount = @ + 1]
         IN  IF JsLe(s2.timer.remainingTime, 0)
             THEN onTimerComplete(s2)
             ELSE s2

intervalCallback(s) ==
    IF s.timer = NullTimer \/ s.timer.state # "running"
    THEN [clearInterval(s) EXCEPT !.outcome = "noop"]
    ELSE LET s1 == [s EXCEPT !.timer.remainingTime = JsDec(@),
                             !.tickCount = @ + 1]
             s2 == Emit(s1, "tick", "none", s1.timer.remainingTime)
         IN  IF JsLe(s2.timer.remainingTime, 0)
             THEN onTimerComplete(s2)
             ELSE s2

----------------------------------------------------------------------------
(* The interval callback when listeners call the engine back.  The         *)
(* callbacks and emit() run the listeners synchronously, inside the        *)
(* handler; a listener is given by the method it calls (its reaction).     *)

NoReaction == [op |-> "none", config |-> NoConfig]

React(s, reaction) ==
    CASE reaction.op = "none"        -> s
      [] reaction.op = "startTimer"  -> startTimer(s, reaction.config)
      [] reaction.op = "stopTimer"   -> stopTimer(s)
      [] reaction.op = "pauseTimer"  -> pauseTimer(s)
      [] reaction.op = "resumeTimer" -> resumeTimer(s)

(* onTimerComplete with a listener of complete that reacts *)
onTimerCompleteReentered(s, listener) ==
    IF s.timer = NullTimer THEN s
    ELSE LET type == s.timer.type
             actualDuration == ActualDuration(s)
             s1 == clearInterval(s)
             s2 == SetTimer(s1, [s1.timer EXCEPT !.state = "completed",
                                                 !.remainingTime = 0])
             s3 == React(Emit(s2, "complete", type, actualDuration), listener)
             s4 == SetTimer(s3, NullTimer)
         IN  [s4 EXCEPT !.sinceStart = 0, !.tickCount = 0, !.outcome = "ok"]

(* the interval callback with listeners of tick and of complete that       *)
(* react; reading this.timer.remainingTime after a listener has discarded  *)
(* the timer throws a TypeError out of the callback                        *)
intervalCallbackReentered(s, onTick, onCompleteListener) ==
    IF s.timer = NullTimer \/ s.timer.state # "running"
    THEN [clearInterval(s) EXCEPT !.outcome = "noop"]
    ELSE LET s1 == [s EXCEPT !.timer.remainingTime = JsDec(@),
                             !.tickCount = @ + 1]
             s2 == React(Emit(s1, "tick", "none", s1.timer.remainingTime), onTick)
         IN  IF s2.timer = NullTimer THEN [s2 EXCEPT !.outcome = "throw"]
             ELSE IF JsLe(s2.timer.remainingTime, 0)
             THEN onTimerCompleteReentered(s2, onCompleteListener)
             ELSE [s2 EXCEPT !.outcome = "ok"]

----------------------------------------------------------------------------
(* Settings: data model                                                    *)
(*                                                                         *)
(* A value of a settings field is a JavaScript value: Num(v), Str(v) (the  *)
(* string that converts to the number v, Str(NaN) for one that converts to *)
(* none) or Bool(b).  The version field is always a string and is kept as  *)
(* one.                                                                    *)

MaxCalls == 3           \* calls of the settings service made in one behaviour

Bool(b) == [typeof |-> "boolean", val |-> IF b THEN 1 ELSE 0]

(* ToNumber() as the relational operators apply it *)
ToNumber(x) == x.val

DurationKeys == {"workDuration", "shortBreakDuration", "longBreakDuration"}

SettingsKeys == DurationKeys \cup {"soundEnabled"}

(* Object.keys(DEFAULT_SETTINGS), in order *)
SettingsFieldOrder ==
    <<"workDuration", "shortBreakDuration", "longBreakDuration", "soundEnabled", "version">>

SettingsFields == {SettingsFieldOrder[i] : i \in 1..Len(SettingsFieldOrder)}

DEFAULT_SETTINGS ==
    [workDuration |-> Num(25), shortBreakDuration |-> Num(5),
     longBreakDuration |-> Num(15), soundEnabled |-> Bool(TRUE),
     version |-> "1.0.0"]

SETTINGS_VALIDATION ==
    [workDuration |-> [min |-> 1, max |-> 120],
     shortBreakDuration |-> [min |-> 1, max |-> 60],
     longBreakDuration |-> [min |-> 1, max |-> 120]]

SETTINGS_VERSION_SUPPORTED == {"1.0.0"}

(* Files: a file is absent, or holds text that JSON.parse rejects, or      *)
(* holds an object with some fields present.                               *)
FileAbsent == [exists |-> FALSE]

FileGarbage ==
    [exists |-> TRUE, parsable |-> FALSE, present |-> {}, rec |-> DEFAULT_SETTINGS]

JsonFile(present, rec) ==
    [exists |-> TRUE, parsable |-> TRUE, present |-> present,
     rec |-> [f \in SettingsFields |-> IF f \in present THEN rec[f] ELSE DEFAULT_SETTINGS[f]]]

(* JSON.stringify(data, null, 2) *)
Stringify(rec) == JsonFile(SettingsFields, rec)

validateDurationRange_NoUpperBound(value, field) ==
    JsLe(SETTINGS_VALIDATION[field].min, ToNumber(value))

(* value >= validation.min && value <= validation.max *)
validateDurationRange(value, field) ==
    /\ JsLe(SETTINGS_VALIDATION[field].min, ToNumber(value))
    /\ JsLe(ToNumber(value), SETTINGS_VALIDATION[field].max)

validateSettingValue(key, value) ==
    IF key \in DurationKeys THEN validateDurationRange(value, key)
    ELSE IF key = "soundEnabled" THEN value.typeof = "boolean"
    ELSE TRUE

(* validateSettingsData applied to what JSON.parse returned *)
validateSettingsData(file) ==
    /\ SettingsFields \subseteq file.present
    /\ \A k \in DurationKeys : file.rec[k].typeof = "number"
    /\ file.rec.soundEnabled.typeof = "boolean"
    /\ \A k \in DurationKeys : validateDurationRange(file.rec[k], k)
    /\ file.rec.version \in SETTINGS_VERSION_SUPPORTED

(* fileManager.readJsonFile: the parsed object, or null *)
ReadsAsValid(file) == file.exists /\ file.parsable /\ validateSettingsData(file)

mergeWithDefaults_DefaultsOnly(file) == DEFAULT_SETTINGS

mergeWithDefaults(file) ==
    [f \in SettingsFields |->
        IF f = "version" THEN DEFAULT_SETTINGS.version
        ELSE IF f \in file.present THEN file.rec[f] ELSE DEFAULT_SETTINGS[f]]

(* getSettings() / getSetting(key) *)
getSettings == settings

getSetting(key) == settings[key]

NoPending == <<>>

(* An async call of the service, suspended at an await: the method (kind), *)
(* the I/O it awaits (pc), where in loadSettings it is (phase), its        *)
(* arguments and locals, and for a writeJsonFile in progress the object it *)
(* was handed (live: it is still this.settings; otherwise data holds what  *)
(* that object holds) and the text it stringified (content).  atCall is   *)
(* history: what the settings file held when initialize was called.        *)
NoCall ==
    [kind |-> "none", pc |-> "none", phase |-> "none",
     key |-> "none", value |-> Num(0), previousValue |-> Num(0),
     previousSettings |-> DEFAULT_SETTINGS, changes |-> <<>>,
     live |-> FALSE, data |-> DEFAULT_SETTINGS, content |-> FileAbsent,
     atCall |-> FileAbsent]

SettingsConstructed ==
    /\ settings = DEFAULT_SETTINGS
    /\ isInitialized = FALSE
    /\ autoSaveEnabled = TRUE
    /\ backupFiles = {}
    /\ pending = NoPending
    /\ callsMade = 0
    /\ sEmitted = <<>>
    /\ sLast = [step |-> "constructor", io |-> "none", outcome |-> "resolved",
                error |-> "none", call |-> NoCall, updates |-> <<>>]

(* The timer engine as constructed *)
TimerConstructed ==
    /\ timer = NullTimer
    /\ intervalId = NoInterval
    /\ intervals = {}
    /\ sinceStart = 0
    /\ tickCount = 0
    /\ emitted = <<>>
    /\ path = <<"idle">>
    /\ completions = 0
    /\ lastOp = [op |-> "constructor", config |-> NoConfig, outcome |-> "ok"]

----------------------------------------------------------------------------
(* Settings: the methods of SettingsService.  A method is an operator on   *)
(* the state of the service and of the disk; it runs up to its next await  *)
(* on I/O (or to its end) and the I/O's completion resumes it.             *)

SSvc ==
    [settings |-> settings, isInitialized |-> isInitialized,
     autoSaveEnabled |-> autoSaveEnabled, settingsFile |-> settingsFile,
     backupFiles |-> backupFiles, pending |-> pending,
     emitted |-> <<>>, outcome |-> "pending", error |-> "none"]

settingsChanged(key, value, previousValue) ==
    [name |-> "settingsChanged", key |-> key, value |-> value,
     previousValue |-> previousValue, settings |-> DEFAULT_SETTINGS]

SettingsPayload(name, record) ==
    [name |-> name, key |-> "none", value |-> Num(0),
     previousValue |-> Num(0), settings |-> record]

SEmit(s, events) == [s EXCEPT !.emitted = @ \o events]

Resolve(s) == [s EXCEPT !.outcome = "resolved"]

Reject(s, error) == [s EXCEPT !.outcome = "rejected", !.error = error]

Suspend(s, call) == [s EXCEPT !.pending = Append(@, call), !.outcome = "pending"]

(* this.settings = <a new object>: a writeJsonFile that was handed the old *)
(* object keeps the old object                                             *)
Assign(s, record) ==
    [s EXCEPT !.settings = record,
              !.pending = [i \in DOMAIN @ |->
                              IF @[i].live
                              THEN [@[i] EXCEPT !.live = FALSE, !.data = s.settings]
                              ELSE @[i]]]

(* saveSettings up to writeJsonFile's await of ensureDirectory *)
saveSettings(s, call) == Suspend(s, [call EXCEPT !.pc = "mkdir", !.live = TRUE])

(* initialize after loadSettings returned *)
initializeLoaded(s) ==
    Resolve(SEmit([s EXCEPT !.isInitialized = TRUE],
                  <<SettingsPayload("settingsLoaded", s.settings)>>))

(* initialize's catch *)
initializeFailed(s) ==
    Reject(SEmit(s, <<SettingsPayload("settingsError", DEFAULT_SETTINGS)>>), "io")

initialize(s) ==
    Suspend(s, [NoCall EXCEPT !.kind = "initialize", !.pc = "exists", !.phase = "load",
                              !.atCall = s.settingsFile])

(* createBackupAndReset up to its await of fileExists *)
createBackupAndReset(s, call, phase) ==
    Suspend(s, [call EXCEPT !.pc = "exists", !.phase = phase])

(* createBackupAndReset from "this.settings = { ...DEFAULT_SETTINGS }" on *)
createBackupAndReset_Reset(s, call) == saveSettings(Assign(s, DEFAULT_SETTINGS), call)

(* an error reaches loadSettings: its catch runs createBackupAndReset,     *)
(* unless the error came out of that very call                             *)
loadSettingsFailed(s, call) ==
    IF call.phase \in {"create", "reset1"}
    THEN createBackupAndReset(s, call, "reset2")
    ELSE initializeFailed(s)

updateSettingSaved(s, call) ==
    Resolve(SEmit(s, <<settingsChanged(call.key, call.value, call.previousValue)>>))

updateSettingSaveFailed_NoRollback(s, call) == Reject(s, "io")

updateSettingSaveFailed(s, call) ==
    Reject([s EXCEPT !.settings[call.key] = call.previousValue], "io")

updateSetting_Unguarded(s, key, value) ==
    IF ~validateSettingValue(key, value) THEN Reject(s, "invalid value")
    ELSE LET call == [NoCall EXCEPT !.kind = "updateSetting", !.key = key, !.value = value,
                                    !.previousValue = s.settings[key]]
             staged == [s EXCEPT !.settings[key] = value]
         IN  IF s.autoSaveEnabled THEN saveSettings(staged, call)
             ELSE updateSettingSaved(staged, call)

updateSetting(s, key, value) ==
    IF ~s.isInitialized THEN Reject(s, "not initialized")
    ELSE IF ~validateSettingValue(key, value) THEN Reject(s, "invalid value")
    ELSE LET call == [NoCall EXCEPT !.kind = "updateSetting", !.key = key, !.value = value,
                                    !.previousValue = s.settings[key]]
             staged == [s EXCEPT !.settings[key] = value]
         IN  IF s.autoSaveEnabled THEN saveSettings(staged, call)
             ELSE updateSettingSaved(staged, call)

(* the loop of updateSettings over Object.entries(updates) *)
RECURSIVE ApplyUpdates(_, _, _)
ApplyUpdates(record, changes, updates) ==
    IF updates = <<>> THEN [settings |-> record, changes |-> changes]
    ELSE LET key == Head(updates).key
             value == Head(updates).value
         IN  IF validateSettingValue(key, value) /\ record[key] # value
             THEN ApplyUpdates([record EXCEPT ![key] = value],
                               Append(changes, settingsChanged(key, value, record[key])),
                               Tail(updates))
             ELSE ApplyUpdates(record, changes, Tail(updates))

updateSettingsSaved(s, call) == Resolve(SEmit(s, call.changes))

updateSettingsSaveFailed_FirstOnly(s, call) ==
    Reject([s EXCEPT !.settings[call.changes[1].key] = call.changes[1].previousValue], "io")

updateSettingsSaveFailed(s, call) == Reject(Assign(s, call.previousSettings), "io")

updateSettings(s, updates) ==
    IF ~s.isInitialized THEN Reject(s, "not initialized")
    ELSE LET applied == ApplyUpdates(s.settings, <<>>, updates)
             call == [NoCall EXCEPT !.kind = "updateSettings",
                                    !.previousSettings = s.settings,
                                    !.changes = applied.changes]
             staged == [s EXCEPT !.settings = applied.settings]
         IN  IF s.autoSaveEnabled /\ Len(applied.changes) > 0
             THEN saveSettings(staged, call)
             ELSE updateSettingsSaved(staged, call)

(* the settingsChanged events of resetToDefaults, over Object.keys(DEFAULT_SETTINGS) *)
RECURSIVE ResetChanges(_, _, _)
ResetChanges(previousSettings, record, keys) ==
    IF keys = <<>> THEN <<>>
    ELSE LET key == Head(keys)
         IN  (IF previousSettings[key] # record[key]
              THEN <<settingsChanged(key, record[key], previousSettings[key])>>
              ELSE <<>>) \o ResetChanges(previousSettings, record, Tail(keys))

resetToDefaultsSaved(s, call) ==
    Resolve(SEmit(s, <<SettingsPayload("settingsReset", s.settings)>>
                     \o ResetChanges(call.previousSettings, s.settings, SettingsFieldOrder)))

resetToDefaultsSaveFailed(s, call) == Reject(Assign(s, call.previousSettings), "io")

resetToDefaults(s) ==
    IF ~s.isInitialized THEN Reject(s, "not initialized")
    ELSE LET call == [NoCall EXCEPT !.kind = "resetToDefaults",
                                    !.previousSettings = s.settings]
             staged == Assign(s, DEFAULT_SETTINGS)
         IN  IF s.autoSaveEnabled THEN saveSettings(staged, call)
             ELSE resetToDefaultsSaved(staged, call)

forceSave(s) ==
    IF ~s.isInitialized THEN Reject(s, "not initialized")
    ELSE saveSettings(s, [NoCall EXCEPT !.kind = "forceSave"])

setAutoSave(s, enabled) == Resolve([s EXCEPT !.autoSaveEnabled = enabled])

(* saveSettings returned to the method that awaits it *)
saveSettingsReturns(s, call) ==
    CASE call.kind = "initialize" -> initializeLoaded(s)
      [] call.kind = "updateSetting" -> updateSettingSaved(s, call)
      [] call.kind = "updateSettings" -> updateSettingsSaved(s, call)
      [] call.kind = "resetToDefaults" -> resetToDefaultsSaved(s, call)
      [] call.kind = "forceSave" -> Resolve(s)

(* saveSettings (or backupFile) threw into the method that awaits it *)
saveSettingsThrows(s, call) ==
    CASE call.kind = "initialize" -> loadSettingsFailed(s, call)
      [] call.kind = "updateSetting" -> updateSettingSaveFailed(s, call)
      [] call.kind = "updateSettings" -> updateSettingsSaveFailed(s, call)
      [] call.kind = "resetToDefaults" -> resetToDefaultsSaveFailed(s, call)
      [] call.kind = "forceSave" -> Reject(s, "io")

(* fileManager.fileExists resolved *)
fileExistsReturns(s, call) ==
    IF call.phase = "load"
    THEN IF ~s.settingsFile.exists
         THEN saveSettings(s, [call EXCEPT !.phase = "create"])
         ELSE Suspend(s, [call EXCEPT !.pc = "read"])
    ELSE IF s.settingsFile.exists
         THEN Suspend(s, [call EXCEPT !.pc = "backup"])
         ELSE createBackupAndReset_Reset(s, call)

(* fileManager.readJsonFile resolved.  Only promise continuations, no     *)
(* I/O, lie between the assignment of the merged record and initialize's   *)
(* "isInitialized = true" and emit: they are one step.                     *)
readJsonFileReturns(s, call) ==
    IF ReadsAsValid(s.settingsFile)
    THEN initializeLoaded(Assign(s, mergeWithDefaults(s.settingsFile)))
    ELSE createBackupAndReset(s, call, "reset1")

backupFileReturns_NoCopy(s, call, ok) ==
    IF ok THEN createBackupAndReset_Reset(s, call)
    ELSE saveSettingsThrows(s, call)

(* fileManager.backupFile settled *)
backupFileReturns(s, call, ok) ==
    IF ok /\ s.settingsFile.exists
    THEN createBackupAndReset_Reset([s EXCEPT !.backupFiles = @ \cup {s.settingsFile}], call)
    ELSE saveSettingsThrows(s, call)

(* fileManager.ensureDirectory settled; on success writeJsonFile          *)
(* stringifies the object it was handed and starts fs.writeFile            *)
ensureDirectoryReturns(s, call, ok) ==
    IF ok
    THEN Suspend(s, [call EXCEPT !.pc = "write", !.live = FALSE, !.data = DEFAULT_SETTINGS,
                                 !.content = Stringify(IF call.live THEN s.settings
                                                       ELSE call.data)])
    ELSE saveSettingsThrows(s, [call EXCEPT !.live = FALSE, !.data = DEFAULT_SETTINGS])

WriteOutcomes == {"ok", "failed", "torn"}

(* fs.writeFile settled: it wrote the text, or failed before touching the  *)
(* file, or failed having destroyed what the file held                     *)
writeFileReturns(s, call, result) ==
    LET c == [call EXCEPT !.content = FileAbsent]
    IN  CASE result = "ok" ->
                saveSettingsReturns([s EXCEPT !.settingsFile = call.content], c)
          [] result = "failed" -> saveSettingsThrows(s, c)
          [] result = "torn" ->
                saveSettingsThrows([s EXCEPT !.settingsFile = FileGarbage], c)

----------------------------------------------------------------------------
(* Statistics: data model.  Counters, accumulators and lastResetDate are   *)
(* JavaScript values; a date string is Str(t), t the time it parses to     *)
(* (NaN when it parses to none).  The version is kept as a string.         *)

JsNull == [typeof |-> "object", val |-> 0]

(* a + b on numbers *)
JsAdd(a, b) == IF a = NaN \/ b = NaN THEN NaN ELSE a + b

APP_VERSION == "1.0.0"

SessionTypes == {"work", "shortBreak", "longBreak"}

CounterOf ==
    [work |-> "workSessions", shortBreak |-> "shortBreakSessions",
     longBreak |-> "longBreakSessions"]

NumericFields ==
    {"workSessions", "shortBreakSessions", "longBreakSessions",
     "totalWorkTime", "totalBreakTime"}

StatsFields == NumericFields \cup {"lastResetDate", "version"}

(* lastResetDate of DEFAULT_STATS is the time the module was loaded: time 0 *)
DEFAULT_STATS ==
    [workSessions |-> Num(0), shortBreakSessions |-> Num(0),
     longBreakSessions |-> Num(0), totalWorkTime |-> Num(0),
     totalBreakTime |-> Num(0), lastResetDate |-> Str(0), version |-> "1.0.0"]

StatsFileGarbage ==
    [exists |-> TRUE, parsable |-> FALSE, present |-> {}, rec |-> DEFAULT_STATS]

StatsJsonFile(present, rec) ==
    [exists |-> TRUE, parsable |-> TRUE, present |-> present,
     rec |-> [f \in StatsFields |-> IF f \in present THEN rec[f] ELSE DEFAULT_STATS[f]]]

(* JSON.stringify(data, null, 2): NaN is written as null *)
StatsStringify(rec) ==
    StatsJsonFile(StatsFields,
                  [f \in StatsFields |->
                      IF f \in NumericFields /\ rec[f].typeof = "number" /\ rec[f].val = NaN
                      THEN JsNull ELSE rec[f]])

(* validateStatsData rejecting a record of another version *)
validateStatsData_ChecksVersion(file) ==
    /\ StatsFields \subseteq file.present
    /\ \A f \in NumericFields :
          ~(file.rec[f].typeof # "number" \/ JsLt(file.rec[f].val, 0))
    /\ file.rec.lastResetDate.typeof = "string"
    /\ file.rec.lastResetDate.val # NaN
    /\ file.rec.version = APP_VERSION

validateStatsData(file) ==
    /\ StatsFields \subseteq file.present
    /\ \A f \in NumericFields :
          ~(file.rec[f].typeof # "number" \/ JsLt(file.rec[f].val, 0))
    /\ file.rec.lastResetDate.typeof = "string"
    /\ file.rec.lastResetDate.val # NaN

(* fileManager.readJsonFile with validateStatsData: the parsed object, or null *)
StatsReadAsValid(file) == file.exists /\ file.parsable /\ validateStatsData(file)

getStats == stats

(* A save or an async call of the service suspended at an await: the       *)
(* method (kind), the I/O it awaits (pc), where in loadStats it is         *)
(* (phase), its locals, and for a writeJsonFile in progress the object it  *)
(* was handed (live: it is still this.stats; otherwise data holds what     *)
(* that object holds) and the text it stringified (content).  atCall is    *)
(* history: what the statistics file held when initialize was called.      *)
NoStatsCall ==
    [kind |-> "none", pc |-> "none", phase |-> "none",
     type |-> "none", minutes |-> 0,
     previousStats |-> DEFAULT_STATS, resetDate |-> Str(0),
     live |-> FALSE, data |-> DEFAULT_STATS, content |-> FileAbsent,
     atCall |-> FileAbsent]

StatsConstructed ==
    /\ stats = DEFAULT_STATS
    /\ statsInitialized = FALSE
    /\ statsBackups = {}
    /\ statsPending = <<>>
    /\ statsCalls = 0
    /\ statsFailed = FALSE
    /\ stLast = [step |-> "constructor", io |-> "none", outcome |-> "resolved",
                 error |-> "none", call |-> NoStatsCall]

----------------------------------------------------------------------------
(* Statistics: the methods of StatsService, as operators on the state of   *)
(* the service and of the disk; a method runs up to its next await on I/O  *)
(* (or to its end).  incrementSession and addTime return at once and leave *)
(* their save suspended.                                                   *)

StSvc ==
    [stats |-> stats, isInitialized |-> statsInitialized, statsFile |-> statsFile,
     backups |-> statsBackups, pending |-> statsPending, failed |-> statsFailed,
     outcome |-> "pending", error |-> "none"]

(* this.stats = <another object>: a writeJsonFile that was handed the old  *)
(* object keeps the old object                                             *)
StatsAssign(s, record) ==
    [s EXCEPT !.stats = record,
              !.pending = [i \in DOMAIN @ |->
                              IF @[i].live
                              THEN [@[i] EXCEPT !.live = FALSE, !.data = s.stats]
                              ELSE @[i]]]

(* saveStats up to writeJsonFile's await of ensureDirectory *)
saveStats(s, call) == Suspend(s, [call EXCEPT !.pc = "mkdir", !.live = TRUE])

(* initialize after loadStats returned *)
statsInitializeLoaded(s) == Resolve([s EXCEPT !.isInitialized = TRUE])

(* initialize loading the file again although the service is ready *)
statsInitialize_Reloads(s) ==
    Suspend(s, [NoStatsCall EXCEPT !.kind = "initialize", !.pc = "exists",
                                   !.phase = "load", !.atCall = s.statsFile])

(* StatsService.initialize up to loadStats' await of fileExists *)
statsInitialize(s) ==
    IF s.isInitialized THEN Resolve(s)
    ELSE Suspend(s, [NoStatsCall EXCEPT !.kind = "initialize", !.pc = "exists",
                                        !.phase = "load", !.atCall = s.statsFile])

(* an error reaches loadStats: its catch adopts the defaults and saves     *)
(* them, unless the error came out of that very save                       *)
loadStatsFailed(s, call) ==
    IF call.phase \in {"create", "reset"}
    THEN saveStats(StatsAssign(s, DEFAULT_STATS), [call EXCEPT !.phase = "fallback"])
    ELSE Reject(s, "io")

incrementSession_Unguarded(s, type) ==
    IF type \notin SessionTypes THEN Reject(s, "unknown type")
    ELSE Resolve(saveStats([s EXCEPT !.stats[CounterOf[type]] = Num(JsAdd(@.val, 1))],
                           [NoStatsCall EXCEPT !.kind = "incrementSession",
                                               !.type = type]))

incrementSession(s, type) ==
    IF ~s.isInitialized THEN Reject(s, "not initialized")
    ELSE IF type \notin SessionTypes THEN Reject(s, "unknown type")
    ELSE Resolve(saveStats([s EXCEPT !.stats[CounterOf[type]] = Num(JsAdd(@.val, 1))],
                           [NoStatsCall EXCEPT !.kind = "incrementSession",
                                               !.type = type]))

addTime_NoSignTest(s, type, minutes) ==
    IF ~s.isInitialized THEN Reject(s, "not initialized")
    ELSE LET field == IF type = "work" THEN "totalWorkTime" ELSE "totalBreakTime"
         IN  Resolve(saveStats([s EXCEPT !.stats[field] = Num(JsAdd(@.val, minutes))],
                               [NoStatsCall EXCEPT !.kind = "addTime", !.type = type,
                                                   !.minutes = minutes]))

addTime(s, type, minutes) ==
    IF ~s.isInitialized THEN Reject(s, "not initialized")
    ELSE IF JsLe(minutes, 0) THEN Resolve(s)
    ELSE LET field == IF type = "work" THEN "totalWorkTime" ELSE "totalBreakTime"
         IN  Resolve(saveStats([s EXCEPT !.stats[field] = Num(JsAdd(@.val, minutes))],
                               [NoStatsCall EXCEPT !.kind = "addTime", !.type = type,
                                                   !.minutes = minutes]))

(* resetStats up to its await of backupFile; now is new Date() *)
resetStats(s, now) ==
    IF ~s.isInitialized THEN Reject(s, "not initialized")
    ELSE Suspend(s, [NoStatsCall EXCEPT !.kind = "resetStats", !.pc = "backup",
                                        !.previousStats = s.stats,
                                        !.resetDate = Str(now)])

resetStatsFailed_KeepsReset(s, call) == Reject(s, "io")

(* the catch of resetStats *)
resetStatsFailed(s, call) == Reject(StatsAssign(s, call.previousStats), "io")

(* saveStats returned to the method that awaits it, or to nobody *)
saveStatsReturns(s, call) ==
    CASE call.kind = "initialize" -> statsInitializeLoaded(s)
      [] call.kind = "resetStats" -> Resolve(s)
      [] call.kind \in {"incrementSession", "addTime"} -> [s EXCEPT !.outcome = "saved"]

saveStatsThrows_Surfaces(s, call) ==
    CASE call.kind = "initialize" -> loadStatsFailed(s, call)
      [] call.kind = "resetStats" -> resetStatsFailed(s, call)
      [] call.kind \in {"incrementSession", "addTime"} ->
            Reject([s EXCEPT !.failed = TRUE], "io")

(* saveStats threw into the method that awaits it, or into the .catch of   *)
(* incrementSession/addTime, which logs the error                          *)
saveStatsThrows(s, call) ==
    CASE call.kind = "initialize" -> loadStatsFailed(s, call)
      [] call.kind = "resetStats" -> resetStatsFailed(s, call)
      [] call.kind \in {"incrementSession", "addTime"} ->
            [s EXCEPT !.outcome = "swallowed", !.failed = TRUE]

(* loadStats after fileManager.fileExists resolved *)
statsFileExistsReturns(s, call) ==
    IF ~s.statsFile.exists
    THEN saveStats(s, [call EXCEPT !.phase = "create"])
    ELSE Suspend(s, [call EXCEPT !.pc = "read"])

(* loadStats after fileManager.readJsonFile resolved.  Only promise        *)
(* continuations, no I/O, lie between "this.stats = data" and initialize's *)
(* "isInitialized = true": they are one step.                              *)
statsReadReturns(s, call) ==
    IF StatsReadAsValid(s.statsFile)
    THEN statsInitializeLoaded(
             StatsAssign(s, [s.statsFile.rec EXCEPT !.version = APP_VERSION]))
    ELSE saveStats(StatsAssign(s, DEFAULT_STATS), [call EXCEPT !.phase = "reset"])

ResetRecord(resetDate) ==
    [workSessions |-> Num(0), shortBreakSessions |-> Num(0),
     longBreakSessions |-> Num(0), totalWorkTime |-> Num(0),
     totalBreakTime |-> Num(0), lastResetDate |-> resetDate, version |-> APP_VERSION]

(* resetStats after fileManager.backupFile settled *)
statsBackupReturns(s, call, ok) ==
    IF ok /\ s.statsFile.exists
    THEN saveStats(StatsAssign([s EXCEPT !.backups = @ \cup {s.statsFile}],
                               ResetRecord(call.resetDate)), call)
    ELSE resetStatsFailed(s, call)

(* writeJsonFile after fileManager.ensureDirectory settled *)
statsEnsureDirectoryReturns(s, call, ok) ==
    IF ok
    THEN Suspend(s, [call EXCEPT !.pc = "write", !.live = FALSE, !.data = DEFAULT_STATS,
                                 !.content = StatsStringify(IF call.live THEN s.stats
                                                            ELSE call.data)])
    ELSE saveStatsThrows(s, [call EXCEPT !.live = FALSE, !.data = DEFAULT_STATS])

(* writeJsonFile after fs.writeFile settled *)
statsWriteFileReturns(s, call, result) ==
    LET c == [call EXCEPT !.content = FileAbsent]
    IN  CASE result = "ok" ->
                saveStatsReturns([s EXCEPT !.statsFile = call.content], c)
          [] result = "failed" -> saveStatsThrows(s, c)
          [] result = "torn" ->
                saveStatsThrows([s EXCEPT !.statsFile = StatsFileGarbage], c)

----------------------------------------------------------------------------
(* The application's onComplete callback of the timer engine, up to its    *)
(* first await: it credits the session to the statistics service and logs  *)
(* what that service throws.                                               *)

onComplete(s, type, actualDuration) ==
    LET s1 == incrementSession(s, type)
    IN  IF s1.outcome = "rejected" THEN [s1 EXCEPT !.outcome = "logged"]
        ELSE IF type = "work" THEN addTime(s1, "work", actualDuration)
        ELSE addTime(s1, "break", actualDuration)

----------------------------------------------------------------------------
(* State machine of the timer engine *)

Begin == [Svc EXCEPT !.path = <<getState(Svc)>>]

CommitTimer(s, op, input) ==
    /\ timer' = s.timer
    /\ intervalId' = s.intervalId
    /\ intervals' = s.intervals
    /\ sinceStart' = s.sinceStart
    /\ tickCount' = s.tickCount
    /\ emitted' = s.emitted
    /\ path' = s.path
    /\ completions' = s.completions
    /\ lastOp' = [op |-> op, config |-> input, outcome |-> s.outcome]

Commit(s, op, input) ==
    /\ CommitTimer(s, op, input)
    /\ UNCHANGED settingsVars
    /\ UNCHANGED statsVars

Init ==
    /\ TimerConstructed
    /\ SettingsConstructed
    /\ settingsFile = FileAbsent
    /\ StatsConstructed
    /\ statsFile = FileAbsent

StartTimer ==
    \E config \in ConfigInputs :
        Commit(startTimer(Begin, config), "startTimer", config)

StopTimer == Commit(stopTimer(Begin), "stopTimer", NoConfig)

PauseTimer == Commit(pauseTimer(Begin), "pauseTimer", NoConfig)

ResumeTimer == Commit(resumeTimer(Begin), "resumeTimer", NoConfig)

Destroy == Commit(destroy(Begin), "destroy", NoConfig)

(* A scheduled interval fires, one TickSeconds after the previous firing.  *)
(* Elapse never lets a timer wait so long that its own ticks would pass    *)
(* MaxWallSecs, so the bound cuts short only a timer that cannot complete. *)
Tick ==
    \E h \in intervals :
        /\ sinceStart + TickSeconds <= MaxWallSecs
        /\ Commit(intervalCallback([Begin EXCEPT
                      !.sinceStart = IF timer = NullTimer THEN 0 ELSE @ + TickSeconds]),
                  "tick", NoConfig)

(* Wall time passes while the event loop has nothing scheduled *)
Elapse ==
    /\ intervals = {}
    /\ timer # NullTimer =>
          /\ timer.remainingTime # NaN
          /\ sinceStart + ElapseStep + timer.remainingTime <= MaxWallSecs
    /\ Commit([Begin EXCEPT !.sinceStart = IF timer = NullTimer THEN 0 ELSE @ + ElapseStep],
              "elapse", NoConfig)

Next ==
    \/ StartTimer
    \/ StopTimer
    \/ PauseTimer
    \/ ResumeTimer
    \/ Destroy
    \/ Tick
    \/ Elapse

Spec == Init /\ [][Next]_allVars

(* The timer engine with listeners that call it back *)

ReentrantConfigs ==
    {[type |-> "work", duration |-> Num(1)],
     [type |-> "shortBreak", duration |-> Num(1)]}

Reactions ==
    {NoReaction}
        \cup {[op |-> op, config |-> NoConfig] :
                 op \in {"stopTimer", "pauseTimer", "resumeTimer"}}
        \cup {[op |-> "startTimer", config |-> c] : c \in ReentrantConfigs}

ReentrantStart ==
    \E config \in ReentrantConfigs :
        Commit(startTimer(Begin, config), "startTimer", config)

(* A scheduled interval fires; the step records the reactions that ran *)
ReentrantTick ==
    \E h \in intervals, onTick \in Reactions, onCompleteListener \in Reactions :
        LET s == intervalCallbackReentered(
                     [Begin EXCEPT !.sinceStart = IF timer = NullTimer THEN 0
                                                  ELSE @ + TickSeconds],
                     onTick, onCompleteListener)
            ticked == \E i \in DOMAIN s.emitted : s.emitted[i].name = "tick"
            done   == \E i \in DOMAIN s.emitted : s.emitted[i].name = "complete"
        IN  Commit(s, "tick",
                   [onTick |-> IF ticked THEN onTick ELSE NoReaction,
                    onComplete |-> IF done THEN onCompleteListener ELSE NoReaction])

ReentrantNext ==
    \/ ReentrantStart
    \/ StopTimer
    \/ PauseTimer
    \/ ResumeTimer
    \/ ReentrantTick

ReentrantSpec == Init /\ [][ReentrantNext]_allVars

----------------------------------------------------------------------------
(* Type invariant *)

Timers ==
    [type : TimerTypes, duration : (1..MAX_DURATION_MINUTES) \cup {NaN},
     remainingTime : (0..(MAX_DURATION_MINUTES * SecondsPerMinute)) \cup {NaN},
     state : {"idle", "running", "paused", "completed"}]

TypeOK ==
    /\ timer \in Timers \cup {NullTimer}
    /\ intervalId \in Handles \cup {NoInterval}
    /\ intervals \subseteq Handles
    /\ sinceStart \in 0..MaxWallSecs
    /\ tickCount \in 0..MaxWallSecs
    /\ completions \in 0..1

----------------------------------------------------------------------------
(* State machine of the settings service: the calls its clients make and   *)
(* the completions of the I/O its suspended calls await, in any order      *)

Setting(key, value) == [key |-> key, value |-> value]

(* Arguments of updateSetting: in range, out of range, of the wrong type *)
SettingInputs ==
    {Setting("workDuration", Num(30)), Setting("workDuration", Num(0)),
     Setting("workDuration", Str(30)), Setting("shortBreakDuration", Num(61)),
     Setting("soundEnabled", Bool(FALSE)), Setting("soundEnabled", Num(1))}

(* Arguments of updateSettings, as Object.entries lists them *)
UpdateBatches ==
    {<<Setting("workDuration", Num(30)), Setting("soundEnabled", Bool(FALSE))>>,
     <<Setting("shortBreakDuration", Num(10)), Setting("longBreakDuration", Num(121))>>}

(* What settings.json holds when the application starts *)
UnusableFiles ==
    {FileGarbage,
     JsonFile(SettingsFields \ {"soundEnabled"}, DEFAULT_SETTINGS),
     Stringify([DEFAULT_SETTINGS EXCEPT !.workDuration = Str(30)]),
     Stringify([DEFAULT_SETTINGS EXCEPT !.shortBreakDuration = Num(61)]),
     Stringify([DEFAULT_SETTINGS EXCEPT !.version = "2.0.0"])}

ValidFiles ==
    {Stringify(DEFAULT_SETTINGS),
     Stringify([DEFAULT_SETTINGS EXCEPT !.workDuration = Num(45),
                                        !.soundEnabled = Bool(FALSE)])}

InitialFiles == {FileAbsent} \cup UnusableFiles \cup ValidFiles

Remove(seq, i) == SubSeq(seq, 1, i - 1) \o SubSeq(seq, i + 1, Len(seq))

(* the service as the completion of pending[i] finds it *)
Resume(i) == [SSvc EXCEPT !.pending = Remove(pending, i)]

SCommit(s, step, io, call, updates) ==
    /\ callsMade' = IF step = "call" THEN callsMade + 1 ELSE callsMade
    /\ callsMade' <= MaxCalls
    /\ settings' = s.settings
    /\ isInitialized' = s.isInitialized
    /\ autoSaveEnabled' = s.autoSaveEnabled
    /\ settingsFile' = s.settingsFile
    /\ backupFiles' = s.backupFiles
    /\ pending' = s.pending
    /\ sEmitted' = s.emitted
    /\ sLast' = [step |-> step, io |-> io, outcome |-> s.outcome, error |-> s.error,
                 call |-> call, updates |-> updates]
    /\ UNCHANGED vars
    /\ UNCHANGED statsVars

SettingsInit ==
    /\ TimerConstructed
    /\ SettingsConstructed
    /\ settingsFile \in InitialFiles
    /\ StatsConstructed
    /\ statsFile = FileAbsent

(* the application initializes the service at startup, and again only if   *)
(* that failed                                                             *)
Initialize ==
    /\ ~isInitialized
    /\ \A i \in DOMAIN pending : pending[i].kind # "initialize"
    /\ SCommit(initialize(SSvc), "call", "none", [NoCall EXCEPT !.kind = "initialize"], <<>>)

UpdateSetting ==
    \E input \in SettingInputs :
        SCommit(updateSetting(SSvc, input.key, input.value), "call", "none",
                [NoCall EXCEPT !.kind = "updateSetting", !.key = input.key,
                               !.value = input.value], <<>>)

UpdateSettings ==
    \E updates \in UpdateBatches :
        SCommit(updateSettings(SSvc, updates), "call", "none",
                [NoCall EXCEPT !.kind = "updateSettings"], updates)

ResetToDefaults ==
    SCommit(resetToDefaults(SSvc), "call", "none",
            [NoCall EXCEPT !.kind = "resetToDefaults"], <<>>)

ForceSave ==
    SCommit(forceSave(SSvc), "call", "none", [NoCall EXCEPT !.kind = "forceSave"], <<>>)

(* the owner of the service chooses the autosave mode before it uses it *)
SetAutoSave ==
    \E enabled \in BOOLEAN :
        /\ callsMade = 0
        /\ SCommit(setAutoSave(SSvc, enabled), "setAutoSave", "none",
                [NoCall EXCEPT !.kind = "setAutoSave"], <<>>)

FileExistsDone ==
    \E i \in DOMAIN pending :
        /\ pending[i].pc = "exists"
        /\ SCommit(fileExistsReturns(Resume(i), pending[i]), "exists", "ok",
                   pending[i], <<>>)

ReadDone ==
    \E i \in DOMAIN pending :
        /\ pending[i].pc = "read"
        /\ SCommit(readJsonFileReturns(Resume(i), pending[i]), "read", "ok",
                   pending[i], <<>>)

BackupDone ==
    \E i \in DOMAIN pending, ok \in BOOLEAN :
        /\ pending[i].pc = "backup"
        /\ SCommit(backupFileReturns(Resume(i), pending[i], ok), "backup",
                   IF ok THEN "ok" ELSE "failed", pending[i], <<>>)

MkdirDone ==
    \E i \in DOMAIN pending, ok \in BOOLEAN :
        /\ pending[i].pc = "mkdir"
        /\ SCommit(ensureDirectoryReturns(Resume(i), pending[i], ok), "mkdir",
                   IF ok THEN "ok" ELSE "failed", pending[i], <<>>)

WriteDone ==
    \E i \in DOMAIN pending, result \in WriteOutcomes :
        /\ pending[i].pc = "write"
        /\ SCommit(writeFileReturns(Resume(i), pending[i], result), "write", result,
                   pending[i], <<>>)

SettingsNext ==
    \/ Initialize
    \/ UpdateSetting
    \/ UpdateSettings
    \/ ResetToDefaults
    \/ ForceSave
    \/ SetAutoSave
    \/ FileExistsDone
    \/ ReadDone
    \/ BackupDone
    \/ MkdirDone
    \/ WriteDone

SettingsSpec == SettingsInit /\ [][SettingsNext]_allVars

----------------------------------------------------------------------------
(* State machine of the statistics service *)

(* Arguments of incrementSession and of addTime *)
SessionInputs == SessionTypes \cup {"unknown"}

TimeInputs ==
    {<<"work", 25>>, <<"break", 5>>, <<"work", 0>>, <<"break", -5>>, <<"work", NaN>>}

(* What stats.json holds when the application starts *)
ThreeSessions ==
    [DEFAULT_STATS EXCEPT !.workSessions = Num(3), !.totalWorkTime = Num(75)]

UnusableStatsFiles ==
    {StatsFileGarbage,
     StatsJsonFile(StatsFields \ {"totalBreakTime"}, ThreeSessions),
     StatsStringify([ThreeSessions EXCEPT !.workSessions = Num(-1)]),
     StatsStringify([ThreeSessions EXCEPT !.workSessions = Str(3)]),
     StatsStringify([ThreeSessions EXCEPT !.lastResetDate = Str(NaN)])}

ValidStatsFiles ==
    {StatsStringify(ThreeSessions),
     StatsStringify([ThreeSessions EXCEPT !.version = "0.9.0"])}

InitialStatsFiles == {FileAbsent} \cup UnusableStatsFiles \cup ValidStatsFiles

(* the service as the completion of statsPending[i] finds it *)
StResume(i) == [StSvc EXCEPT !.pending = Remove(statsPending, i)]

StCommit(s, step, io, call) ==
    /\ statsCalls' = IF step = "call" THEN statsCalls + 1 ELSE statsCalls
    /\ statsCalls' <= MaxCalls
    /\ stats' = s.stats
    /\ statsInitialized' = s.isInitialized
    /\ statsFile' = s.statsFile
    /\ statsBackups' = s.backups
    /\ statsPending' = s.pending
    /\ statsFailed' = s.failed
    /\ stLast' = [step |-> step, io |-> io, outcome |-> s.outcome, error |-> s.error,
                  call |-> call]
    /\ UNCHANGED vars
    /\ UNCHANGED settingsVars

StatsInit ==
    /\ TimerConstructed
    /\ SettingsConstructed
    /\ settingsFile = FileAbsent
    /\ StatsConstructed
    /\ statsFile \in InitialStatsFiles

StatsInitialize ==
    /\ \A i \in DOMAIN statsPending : statsPending[i].kind # "initialize"
    /\ StCommit(statsInitialize(StSvc), "call", "none",
                [NoStatsCall EXCEPT !.kind = "initialize"])

IncrementSession ==
    \E type \in SessionInputs :
        StCommit(incrementSession(StSvc, type), "call", "none",
                 [NoStatsCall EXCEPT !.kind = "incrementSession", !.type = type])

AddTime ==
    \E input \in TimeInputs :
        StCommit(addTime(StSvc, input[1], input[2]), "call", "none",
                 [NoStatsCall EXCEPT !.kind = "addTime", !.type = input[1],
                                     !.minutes = input[2]])

ResetStats ==
    StCommit(resetStats(StSvc, statsCalls + 1), "call", "none",
             [NoStatsCall EXCEPT !.kind = "resetStats"])

StatsFileExistsDone ==
    \E i \in DOMAIN statsPending :
        /\ statsPending[i].pc = "exists"
        /\ StCommit(statsFileExistsReturns(StResume(i), statsPending[i]), "exists", "ok",
                    statsPending[i])

StatsReadDone ==
    \E i \in DOMAIN statsPending :
        /\ statsPending[i].pc = "read"
        /\ StCommit(statsReadReturns(StResume(i), statsPending[i]), "read", "ok",
                    statsPending[i])

StatsBackupDone ==
    \E i \in DOMAIN statsPending, ok \in BOOLEAN :
        /\ statsPending[i].pc = "backup"
        /\ StCommit(statsBackupReturns(StResume(i), statsPending[i], ok), "backup",
                    IF ok /\ statsFile.exists THEN "ok" ELSE "failed", statsPending[i])

StatsMkdirDone ==
    \E i \in DOMAIN statsPending, ok \in BOOLEAN :
        /\ statsPending[i].pc = "mkdir"
        /\ StCommit(statsEnsureDirectoryReturns(StResume(i), statsPending[i], ok), "mkdir",
                    IF ok THEN "ok" ELSE "failed", statsPending[i])

StatsWriteDone ==
    \E i \in DOMAIN statsPending, result \in WriteOutcomes :
        /\ statsPending[i].pc = "write"
        /\ StCommit(statsWriteFileReturns(StResume(i), statsPending[i], result), "write",
                    result, statsPending[i])

StatsNext ==
    \/ StatsInitialize
    \/ IncrementSession
    \/ AddTime
    \/ ResetStats
    \/ StatsFileExistsDone
    \/ StatsReadDone
    \/ StatsBackupDone
    \/ StatsMkdirDone
    \/ StatsWriteDone

StatsSpec == StatsInit /\ [][StatsNext]_allVars

(* The statistics service when resetStats is never called *)
AccumulateNext ==
    \/ StatsInitialize
    \/ IncrementSession
    \/ AddTime
    \/ StatsFileExistsDone
    \/ StatsReadDone
    \/ StatsMkdirDone
    \/ StatsWriteDone

AccumulateSpec == StatsInit /\ [][AccumulateNext]_allVars

----------------------------------------------------------------------------
(* State machine of the application: the timer engine with the onComplete  *)
(* callback the application gives it, and the statistics service.  The     *)
(* application creates the timer engine when its awaits of the services'   *)
(* initialize have settled, resolved or rejected, and destroys it when it  *)
(* quits.                                                                  *)

AppStatsFiles == {FileAbsent, StatsStringify(ThreeSessions)}

(* The timers the application starts: one of each type *)
AppConfigs ==
    {[type |-> "work", duration |-> Num(2)],
     [type |-> "shortBreak", duration |-> Num(1)],
     [type |-> "longBreak", duration |-> Num(1)]}

AppInit ==
    /\ TimerConstructed
    /\ SettingsConstructed
    /\ settingsFile = FileAbsent
    /\ StatsConstructed
    /\ statsFile \in AppStatsFiles

(* initializeServices has run and the application has not quit *)
TimerServiceCreated ==
    /\ statsCalls >= 1
    /\ \A i \in DOMAIN statsPending : statsPending[i].kind # "initialize"
    /\ lastOp.op # "destroy"

(* the calls of the statistics service that onComplete got to make *)
CallsOf(st) == IF st.outcome = "logged" THEN 1 ELSE 2

(* A handler of the timer engine; the onComplete callback runs inside it   *)
(* when it delivers complete.                                              *)
AppCommit(s, op, input) ==
    LET done == SelectSeq(s.emitted, LAMBDA e : e.name = "complete")
    IN  /\ TimerServiceCreated
        /\ CommitTimer(s, op, input)
        /\ UNCHANGED settingsVars
        /\ IF done = <<>> THEN UNCHANGED statsVars
           ELSE LET st == onComplete(StSvc, done[1].type, done[1].arg)
                IN  /\ stats' = st.stats
                    /\ statsInitialized' = st.isInitialized
                    /\ statsFile' = st.statsFile
                    /\ statsBackups' = st.backups
                    /\ statsPending' = st.pending
                    /\ statsFailed' = st.failed
                    /\ statsCalls' = statsCalls + CallsOf(st)
                    /\ stLast' = [step |-> "onComplete", io |-> "none",
                                  outcome |-> st.outcome, error |-> st.error,
                                  call |-> [NoStatsCall EXCEPT !.kind = "onComplete",
                                                               !.type = done[1].type,
                                                               !.minutes = done[1].arg]]

AppInitialize == statsCalls = 0 /\ StatsInitialize

(* a timer is started only when its completion can still be credited       *)
(* within MaxCalls                                                         *)
AppStartTimer ==
    \E config \in AppConfigs :
        /\ statsCalls + 2 <= MaxCalls
        /\ AppCommit(startTimer(Begin, config), "startTimer", config)

AppStopTimer == AppCommit(stopTimer(Begin), "stopTimer", NoConfig)

AppPauseTimer == AppCommit(pauseTimer(Begin), "pauseTimer", NoConfig)

AppResumeTimer == AppCommit(resumeTimer(Begin), "resumeTimer", NoConfig)

AppDestroy == AppCommit(destroy(Begin), "destroy", NoConfig)

AppTick ==
    \E h \in intervals :
        /\ AppCommit(intervalCallback([Begin EXCEPT
                         !.sinceStart = IF timer = NullTimer THEN 0 ELSE @ + TickSeconds]),
                     "tick", NoConfig)

AppElapse ==
    /\ intervals = {}
    /\ timer # NullTimer
    /\ sinceStart + ElapseStep + timer.remainingTime
          <= timer.duration * SecondsPerMinute + MaxPauseSteps * ElapseStep
    /\ AppCommit([Begin EXCEPT !.sinceStart = @ + ElapseStep], "elapse", NoConfig)

AppNext ==
    \/ AppInitialize
    \/ StatsFileExistsDone
    \/ StatsReadDone
    \/ StatsMkdirDone
    \/ StatsWriteDone
    \/ AppStartTimer
    \/ AppStopTimer
    \/ AppPauseTimer
    \/ AppResumeTimer
    \/ AppDestroy
    \/ AppTick
    \/ AppElapse

AppSpec == AppInit /\ [][AppNext]_allVars

----------------------------------------------------------------------------
(* Vocabulary of the properties *)

Named(events, name) == SelectSeq(events, LAMBDA e : e.name = name)

Active(t) == t # NullTimer /\ t.state \in {"running", "paused"}

Running(t) == t # NullTimer /\ t.state = "running"

Paused(t) == t # NullTimer /\ t.state = "paused"

(* A config the specification calls valid: a known type and a duration     *)
(* that is a number within [MIN_DURATION_MINUTES, MAX_DURATION_MINUTES]    *)
WellFormed(config) ==
    /\ config # NoConfig
    /\ config.type \in TimerTypes
    /\ config.duration.typeof = "number"
    /\ config.duration.val # NaN
    /\ config.duration.val >= MIN_DURATION_MINUTES
    /\ config.duration.val <= MAX_DURATION_MINUTES

Scheduled == intervalId # NoInterval /\ intervals = {intervalId}

----------------------------------------------------------------------------
(* C1: for every valid config (known type, duration D in [1,1440]),        *)
(* startTimer(config) leaves the engine Running with remainingTime = D*60  *)
(* and the given type, and emits exactly one start(type, D).               *)
C1_StartYieldsRunning ==
    (lastOp.op = "startTimer" /\ WellFormed(lastOp.config)) =>
        /\ lastOp.outcome = "ok"
        /\ Running(timer)
        /\ timer.type = lastOp.config.type
        /\ timer.duration = lastOp.config.duration.val
        /\ timer.remainingTime = lastOp.config.duration.val * SecondsPerMinute
        /\ Len(Named(emitted, "start")) = 1
        /\ emitted[Len(emitted)].name = "start"
        /\ emitted[Len(emitted)].type = lastOp.config.type
        /\ emitted[Len(emitted)].arg = lastOp.config.duration.val
        /\ emitted[Len(emitted)].state = "running"

C1_Witness ==
    /\ lastOp.op = "startTimer"
    /\ WellFormed(lastOp.config)
    /\ lastOp.config.type = "longBreak"
    /\ lastOp.config.duration.val = 2
    /\ timer.remainingTime = 120
    /\ Len(emitted) = 2

(* C2: ticking is exact decrement-by-one: after N ticks of a timer started *)
(* with D minutes remaining = D*60 - N, each tick emits tick(remaining)    *)
(* exactly once, and pause/resume cycles neither skip nor repeat a value.  *)
C2_ExactDecrement ==
    [][ /\ (timer' # NullTimer /\ timer'.duration # NaN) =>
              /\ tickCount' \in 0..(timer'.duration * SecondsPerMinute)
              /\ timer'.remainingTime
                    = timer'.duration * SecondsPerMinute - tickCount'
        /\ (lastOp'.op = "tick" /\ Running(timer) /\ timer.duration # NaN) =>
              /\ Len(Named(emitted', "tick")) = 1
              /\ emitted'[1].name = "tick"
              /\ emitted'[1].arg = timer.remainingTime - 1
              /\ emitted'[1].remaining = timer.remainingTime - 1
              /\ timer' # NullTimer =>
                    /\ timer'.remainingTime = timer.remainingTime - 1
                    /\ tickCount' = tickCount + 1
        /\ (lastOp'.op \in {"pauseTimer", "resumeTimer"} /\ timer # NullTimer) =>
              /\ timer' # NullTimer
              /\ timer'.remainingTime = timer.remainingTime
              /\ tickCount' = tickCount
              /\ Named(emitted', "tick") = <<>>
      ]_vars

C2_Witness ==
    /\ lastOp.op = "tick"
    /\ Running(timer)
    /\ timer.duration = 2
    /\ tickCount = 61
    /\ timer.remainingTime = 59
    /\ sinceStart > tickCount

(* C3: the tick that brings remaining to 0 emits tick(0), then exactly one *)
(* complete(type, minutes) while the timer is Completed with remaining 0,  *)
(* then clears the instance; no second complete is ever emitted for that   *)
(* timer.                                                                  *)
C3_CompleteOnce ==
    [][ /\ (lastOp'.op = "tick" /\ Running(timer) /\ timer.remainingTime = 1) =>
              /\ Len(emitted') = 2
              /\ emitted'[1].name = "tick"
              /\ emitted'[1].arg = 0
              /\ emitted'[1].state = "running"
              /\ emitted'[2].name = "complete"
              /\ emitted'[2].type = timer.type
              /\ emitted'[2].arg \in Nat
              /\ emitted'[2].state = "completed"
              /\ emitted'[2].remaining = 0
              /\ path' = <<"running", "completed", "idle">>
              /\ timer' = NullTimer
              /\ intervals' = {}
              /\ intervalId' = NoInterval
        /\ Named(emitted', "complete") # <<>> =>
              /\ lastOp'.op = "tick"
              /\ Running(timer)
              /\ timer.remainingTime = 1
        /\ completions' <= 1
      ]_vars

C3_Witness ==
    /\ lastOp.op = "tick"
    /\ Len(Named(emitted, "complete")) = 1
    /\ emitted[2].type = "shortBreak"
    /\ emitted[2].arg = 2
    /\ timer = NullTimer
    /\ completions = 1

(* C4: an operation called from a state where it has no transition is a    *)
(* no-op: stopTimer() when Idle, pauseTimer() when Idle or Paused and       *)
(* resumeTimer() when Idle or Running leave state, remaining time and tick  *)
(* schedule unchanged, emit no event and throw no exception.                *)
C4_NoTransitionNoOp ==
    [][ (\/ lastOp'.op = "stopTimer" /\ timer = NullTimer
         \/ lastOp'.op = "pauseTimer" /\ (timer = NullTimer \/ Paused(timer))
         \/ lastOp'.op = "resumeTimer" /\ (timer = NullTimer \/ Running(timer)))
        => /\ timer' = timer
           /\ intervalId' = intervalId
           /\ intervals' = intervals
           /\ emitted' = <<>>
           /\ path' = <<getState(Svc)>>
           /\ lastOp'.outcome = "noop"
      ]_vars

C4_Witness ==
    /\ lastOp.op = "resumeTimer"
    /\ lastOp.outcome = "noop"
    /\ Running(timer)
    /\ timer.remainingTime = 47
    /\ Scheduled

(* C5: while the timer is Paused its remaining time is frozen: however     *)
(* much wall time passes between pauseTimer() and resumeTimer() no tick    *)
(* fires and remainingTime after the resume is what it was at the pause;   *)
(* pause and resume each emit one event carrying that value.               *)
C5_PausedFrozen ==
    [][ /\ Paused(timer) =>
              /\ intervals = {}
              /\ lastOp'.op # "tick"
              /\ Named(emitted', "tick") = <<>>
        /\ (Paused(timer) /\ lastOp'.op \in {"elapse", "pauseTimer"}) =>
              /\ timer' = timer
              /\ intervals' = {}
              /\ emitted' = <<>>
        /\ (lastOp'.op = "pauseTimer" /\ Running(timer)) =>
              /\ Paused(timer')
              /\ timer'.remainingTime = timer.remainingTime
              /\ Len(emitted') = 1
              /\ emitted'[1].name = "pause"
              /\ emitted'[1].type = timer.type
              /\ emitted'[1].arg = timer.remainingTime
        /\ (lastOp'.op = "resumeTimer" /\ Paused(timer)) =>
              /\ Running(timer')
              /\ timer'.remainingTime = timer.remainingTime
              /\ Len(emitted') = 1
              /\ emitted'[1].name = "resume"
              /\ emitted'[1].type = timer.type
              /\ emitted'[1].arg = timer.remainingTime
      ]_vars

C5_Witness ==
    /\ lastOp.op = "resumeTimer"
    /\ lastOp.outcome = "ok"
    /\ Running(timer)
    /\ timer.remainingTime = 45
    /\ tickCount = 15
    /\ sinceStart = tickCount + ElapseStep
    /\ emitted[1].arg = 45

(* C6: after stopTimer() or destroy() returns the pending tick is          *)
(* cancelled: no further decrement, tick event or complete event occurs    *)
(* for the cancelled timer, however much time passes.                      *)
C6_CancelIsFinal ==
    [][ /\ lastOp'.op \in {"stopTimer", "destroy"} =>
              /\ timer' = NullTimer
              /\ intervals' = {}
              /\ intervalId' = NoInterval
        /\ timer = NullTimer =>
              /\ lastOp'.op # "tick"
              /\ Named(emitted', "tick") = <<>>
              /\ Named(emitted', "complete") = <<>>
              /\ tickCount' = 0
              /\ timer' = NullTimer \/ lastOp'.op = "startTimer"
      ]_vars

C6_Witness ==
    /\ lastOp.op = "destroy"
    /\ path = <<"running", "idle">>
    /\ timer = NullTimer
    /\ intervals = {}
    /\ intervalId = NoInterval

(* C7: stopTimer() called while the timer is Running or Paused makes the   *)
(* engine Idle (getCurrentTimer() is null) and emits exactly one           *)
(* stop(type, remainingSeconds) with the remaining time at the call.       *)
C7_StopEmitsRemaining ==
    [][ (lastOp'.op = "stopTimer" /\ Active(timer)) =>
           /\ timer' = NullTimer
           /\ lastOp'.outcome = "ok"
           /\ Len(emitted') = 1
           /\ emitted'[1].name = "stop"
           /\ emitted'[1].type = timer.type
           /\ emitted'[1].arg = timer.remainingTime
           /\ emitted'[1].state = "idle"
      ]_vars

C7_Witness ==
    /\ lastOp.op = "stopTimer"
    /\ lastOp.outcome = "ok"
    /\ path = <<"paused", "idle", "idle">>
    /\ Len(emitted) = 1
    /\ emitted[1].type = "work"
    /\ emitted[1].arg = 100

(* C8: a successful startTimer(config) issued while a timer is active, in  *)
(* Running or in Paused state, first stops that timer as stopTimer() would *)
(* (tick cancelled, stop(oldType, oldRemainingSeconds) emitted) and only   *)
(* then creates the new Running timer and emits start for it.              *)
C8_StartStopsActive ==
    [][ (lastOp'.op = "startTimer" /\ lastOp'.outcome = "ok" /\ Active(timer)) =>
           /\ Len(emitted') = 2
           /\ emitted'[1].name = "stop"
           /\ emitted'[1].type = timer.type
           /\ emitted'[1].arg = timer.remainingTime
           /\ emitted'[1].state = "idle"
           /\ emitted'[2].name = "start"
           /\ emitted'[2].type = timer'.type
           /\ emitted'[2].arg = timer'.duration
           /\ Running(timer')
           /\ Scheduled'
      ]_vars

(* What the code does do: the implicit stop happens when, and only when,   *)
(* the active timer is Running.                                            *)
StartStopsRunningOnly ==
    [][ (lastOp'.op = "startTimer" /\ lastOp'.outcome = "ok") =>
           /\ Running(timer) =>
                 /\ Len(emitted') = 2
                 /\ emitted'[1].name = "stop"
                 /\ emitted'[1].type = timer.type
                 /\ emitted'[1].arg = timer.remainingTime
                 /\ path' = <<"running", "idle", "idle", "running">>
           /\ ~Running(timer) =>
                 /\ Len(emitted') = 1
                 /\ path' = <<getState(Svc), "running">>
           /\ emitted'[Len(emitted')].name = "start"
           /\ Running(timer')
           /\ Scheduled'
      ]_vars

(* C9: malformed input to startTimer() (missing config, unknown type, or a *)
(* duration that is not a positive number within [1,1440] minutes) is      *)
(* rejected by a synchronous exception before any state change: an active  *)
(* timer keeps its type, remaining time, state and tick schedule, and no   *)
(* start or stop event is emitted.                                         *)
C9_MalformedRejected ==
    [][ (lastOp'.op = "startTimer" /\ ~WellFormed(lastOp'.config)) =>
           /\ lastOp'.outcome = "throw"
           /\ timer' = timer
           /\ intervalId' = intervalId
           /\ intervals' = intervals
           /\ emitted' = <<>>
      ]_vars

(* What the code does do: whatever validateTimerConfig rejects leaves the  *)
(* service untouched.                                                      *)
RejectedLeavesStateUntouched ==
    [][ (lastOp'.op = "startTimer" /\ validateTimerConfig(lastOp'.config) # "ok") =>
           /\ lastOp'.outcome = "throw"
           /\ timer' = timer
           /\ intervalId' = intervalId
           /\ intervals' = intervals
           /\ sinceStart' = sinceStart
           /\ emitted' = <<>>
      ]_vars

(* C10: the state changes only along the edges Idle->Running (start),      *)
(* Running->Paused (pause), Paused->Running (resume), Running->Completed   *)
(* (tick reaching 0), Completed->Idle, and Running/Paused->Idle (stop,     *)
(* destroy); Completed is never entered from Paused or Idle and a Paused   *)
(* timer never completes.                                                  *)
Changes(p) == {<<p[i], p[i + 1]>> : i \in {j \in 1..(Len(p) - 1) : p[j] # p[j + 1]}}

(* The operations that may take each edge; the stop of a Running timer     *)
(* that startTimer performs first is stopTimer's edge.                     *)
EdgeOps(edge) ==
    CASE edge = <<"idle", "running">>      -> {"startTimer"}
      [] edge = <<"running", "paused">>    -> {"pauseTimer"}
      [] edge = <<"paused", "running">>    -> {"resumeTimer"}
      [] edge = <<"running", "completed">> -> {"tick"}
      [] edge = <<"completed", "idle">>    -> {"tick"}
      [] edge = <<"running", "idle">>      -> {"stopTimer", "destroy", "startTimer"}
      [] edge = <<"paused", "idle">>       -> {"stopTimer", "destroy"}
      [] OTHER                             -> {}

C10_OnlyListedEdges ==
    /\ path[1] \in {"idle", "running", "paused"}
    /\ path[Len(path)] = getState(Svc)
    /\ \A edge \in Changes(path) : lastOp.op \in EdgeOps(edge)
    /\ (\E i \in 1..Len(path) : path[i] = "completed") =>
          /\ path = <<"running", "completed", "idle">>
          /\ Len(Named(emitted, "complete")) = 1

(* What the code does do: the same edges as pairs of states, whichever     *)
(* operation takes them.                                                   *)
OnlyListedStatePairs ==
    /\ path[Len(path)] = getState(Svc)
    /\ \A edge \in Changes(path) : EdgeOps(edge) # {}
    /\ (\E i \in 1..Len(path) : path[i] = "completed") =>
          path = <<"running", "completed", "idle">>


----------------------------------------------------------------------------
(* Vocabulary of the settings properties *)

(* the step is a call of the method kind *)
Called(kind) == sLast'.step = "call" /\ sLast'.call.kind = kind

(* the value obeys the rule of its key: a number within the key's range,   *)
(* a boolean for soundEnabled                                              *)
ObeysRule(key, value) ==
    IF key \in DurationKeys
    THEN /\ value.typeof = "number"
         /\ value.val # NaN
         /\ value.val >= SETTINGS_VALIDATION[key].min
         /\ value.val <= SETTINGS_VALIDATION[key].max
    ELSE value.typeof = "boolean"

(* the step left memory and disk alone, started no I/O and emitted nothing *)
NothingHappened ==
    /\ settings' = settings
    /\ settingsFile' = settingsFile
    /\ backupFiles' = backupFiles
    /\ pending' = pending
    /\ sEmitted' = <<>>

AutoSaveCalls == {"updateSetting", "updateSettings", "resetToDefaults"}

(* C11: updateSetting(key, value) with a value outside the key's range or  *)
(* of the wrong type rejects and leaves memory and file unchanged, starts  *)
(* no write and emits no settingsChanged.                                  *)
C11_InvalidValueRejected ==
    [][Called("updateSetting")
       /\ ~ObeysRule(sLast'.call.key, sLast'.call.value)
       => sLast'.outcome = "rejected" /\ NothingHappened]_allVars

(* What the code does: a value is rejected when the comparison with the    *)
(* range fails after conversion to a number, whatever its type.            *)
OutOfRangeRejected ==
    [][Called("updateSetting")
       /\ ~validateSettingValue(sLast'.call.key, sLast'.call.value)
       => sLast'.outcome = "rejected" /\ NothingHappened]_allVars


(* the step is the completion of an I/O that a call of the method kind     *)
(* awaited                                                                 *)
Resumed(kind) == sLast'.step # "call" /\ sLast'.call.kind = kind

(* the step is a failure of a write (of ensureDirectory or of writeFile)   *)
(* that a call of the method kind awaited                                  *)
WriteFailed(kind) ==
    /\ Resumed(kind)
    /\ sLast'.step \in {"mkdir", "write"}
    /\ sLast'.io # "ok"

(* C12: when the write of an updateSetting(key, value) fails, the value of *)
(* key in memory is again what it was before the mutation when the call    *)
(* rejects, and no settingsChanged is emitted.                             *)
C12_FailedWriteRestoresValue ==
    [][WriteFailed("updateSetting")
       => /\ sLast'.outcome = "rejected"
          /\ sLast'.error = "io"
          /\ settings'[sLast'.call.key] = sLast'.call.previousValue
          /\ Named(sEmitted', "settingsChanged") = <<>>]_allVars

C12_Witness ==
    /\ sLast.step = "write"
    /\ sLast.io = "failed"
    /\ sLast.call.kind = "updateSetting"
    /\ sLast.call.value # sLast.call.previousValue
    /\ sLast.outcome = "rejected"
    /\ settings[sLast.call.key] = sLast.call.previousValue
    /\ sEmitted = <<>>


(* the settings file holds a complete record and that record is r *)
Persisted(r) ==
    /\ settingsFile.exists
    /\ settingsFile.parsable
    /\ settingsFile.present = SettingsFields
    /\ settingsFile.rec = r

C14_FailedBatchRolledBack ==
    [][WriteFailed("updateSettings")
       => /\ sLast'.outcome = "rejected"
          /\ sLast'.error = "io"
          /\ \A i \in DOMAIN sLast'.call.changes :
                settings'[sLast'.call.changes[i].key] = sLast'.call.changes[i].previousValue
          /\ Named(sEmitted', "settingsChanged") = <<>>]_allVars

C14_Witness ==
    /\ sLast.step = "write"
    /\ sLast.io = "failed"
    /\ sLast.call.kind = "updateSettings"
    /\ Len(sLast.call.changes) = 2
    /\ sLast.outcome = "rejected"
    /\ settings = sLast.call.previousSettings
    /\ sEmitted = <<>>


(* C15: updateSettings(updates) with an entry that breaks the rule of its  *)
(* key rejects, and no field of the batch is applied in memory, written or *)
(* announced.                                                              *)
C15_InvalidBatchRejected ==
    [][Called("updateSettings")
       /\ (\E i \in DOMAIN sLast'.updates :
              ~ObeysRule(sLast'.updates[i].key, sLast'.updates[i].value))
       => sLast'.outcome = "rejected" /\ NothingHappened]_allVars

(* What the code does: an entry that fails validateSettingValue is passed  *)
(* over, its field keeps its value, and the call goes on with the others.  *)
InvalidEntriesSkipped ==
    [][Called("updateSettings")
       => \A i \in DOMAIN sLast'.updates :
             ~validateSettingValue(sLast'.updates[i].key, sLast'.updates[i].value)
             => settings'[sLast'.updates[i].key] = settings[sLast'.updates[i].key]]_allVars


(* the suspended mutations that have staged their change and await the     *)
(* write of it                                                             *)
Persisting ==
    {i \in DOMAIN pending : /\ pending[i].kind \in AutoSaveCalls
                            /\ pending[i].pc \in {"mkdir", "write"}}

(* C16: mutations of the settings never interleave: while one mutation is  *)
(* between its staging and the outcome of its write, no other mutation has *)
(* staged or started a write.                                              *)
C16_MutationsSerialized == Cardinality(Persisting) <= 1


(* the settingsChanged events among events that are about key *)
ChangesOf(events, key) ==
    SelectSeq(events, LAMBDA e : e.name = "settingsChanged" /\ e.key = key)

(* the step is the successful end of a call of the method kind *)
Succeeded(kind) == sLast'.call.kind = kind /\ sLast'.outcome = "resolved"

(* C17: a successful resetToDefaults() leaves the defaults in memory and   *)
(* in the file, emits settingsReset once, and emits exactly one            *)
(* settingsChanged(key, default, previous) for each field that differed    *)
(* from its default, none for the others.                                  *)
C17_ResetAnnouncesEachChange ==
    [][Succeeded("resetToDefaults")
       => /\ settings' = DEFAULT_SETTINGS
          /\ settingsFile' = Stringify(DEFAULT_SETTINGS)
          /\ Len(Named(sEmitted', "settingsReset")) = 1
          /\ \A key \in SettingsKeys :
                ChangesOf(sEmitted', key) =
                    IF sLast'.call.previousSettings[key] # DEFAULT_SETTINGS[key]
                    THEN <<settingsChanged(key, DEFAULT_SETTINGS[key],
                                           sLast'.call.previousSettings[key])>>
                    ELSE <<>>]_allVars

(* What the code does under autosave when no other mutation is in flight   *)
(* at the reset's call or at its end.                                      *)
ResetAloneAnnouncesEachChange ==
    [][Succeeded("resetToDefaults") /\ sLast'.step = "write"
       /\ Len(pending) = 1 /\ settings = DEFAULT_SETTINGS
       => /\ settings' = DEFAULT_SETTINGS
          /\ Len(Named(sEmitted', "settingsReset")) = 1
          /\ \A key \in SettingsKeys :
                ChangesOf(sEmitted', key) =
                    IF sLast'.call.previousSettings[key] # DEFAULT_SETTINGS[key]
                    THEN <<settingsChanged(key, DEFAULT_SETTINGS[key],
                                           sLast'.call.previousSettings[key])>>
                    ELSE <<>>]_allVars


(* the file exists and readJsonFile returns null for it *)
Unusable(file) == file.exists /\ ~ReadsAsValid(file)

(* the last step resumed an initialize that no I/O failure has touched, by *)
(* an I/O that succeeded                                                   *)
InitializeUnfailed ==
    /\ sLast.step # "call"
    /\ sLast.call.kind = "initialize"
    /\ sLast.call.phase \in {"load", "create", "reset1"}
    /\ sLast.io = "ok"

(* C18: initialize() on a file that exists but is unusable copies the      *)
(* original to a backup, sets the record to the defaults, writes the       *)
(* defaults and becomes Ready, without an error surfacing.                 *)
C18_UnusableFileBackedUpAndReset ==
    InitializeUnfailed /\ Unusable(sLast.call.atCall)
    => /\ sLast.outcome # "rejected"
       /\ Named(sEmitted, "settingsError") = <<>>
       /\ sLast.step = "backup"
          => sLast.call.atCall \in backupFiles /\ settings = DEFAULT_SETTINGS
       /\ sLast.step = "write"
          => /\ sLast.outcome = "resolved"
             /\ isInitialized
             /\ settings = DEFAULT_SETTINGS
             /\ Persisted(DEFAULT_SETTINGS)
             /\ sLast.call.atCall \in backupFiles

C18_Witness ==
    /\ InitializeUnfailed
    /\ sLast.step = "write"
    /\ sLast.call.atCall = JsonFile(SettingsFields \ {"soundEnabled"}, DEFAULT_SETTINGS)
    /\ isInitialized
    /\ settingsFile = Stringify(DEFAULT_SETTINGS)
    /\ backupFiles = {sLast.call.atCall}

(* the record initialize() must end with, given the file it found *)
RecordFor(file) ==
    IF ReadsAsValid(file)
    THEN [file.rec EXCEPT !.version = DEFAULT_SETTINGS.version]
    ELSE DEFAULT_SETTINGS

(* C19: whatever the settings file holds - absent, unusable or valid -     *)
(* initialize(), its backup and write succeeding, ends without an error,   *)
(* Ready, with a record that passes validation (the loaded values for a    *)
(* valid file, else the defaults, written when the file was absent), and   *)
(* emits settingsLoaded exactly once, with that record.                    *)
C19_InitializeAlwaysReady ==
    InitializeUnfailed
    => /\ sLast.outcome # "rejected"
       /\ Named(sEmitted, "settingsError") = <<>>
       /\ (sLast.step = "write" \/ (sLast.step = "read" /\ ReadsAsValid(sLast.call.atCall)))
          => /\ sLast.outcome = "resolved"
             /\ isInitialized
             /\ validateSettingsData(Stringify(settings))
             /\ settings = RecordFor(sLast.call.atCall)
             /\ sEmitted = <<SettingsPayload("settingsLoaded", settings)>>
             /\ ~sLast.call.atCall.exists => Persisted(DEFAULT_SETTINGS)

C19_Witness ==
    /\ InitializeUnfailed
    /\ sLast.step = "read"
    /\ sLast.outcome = "resolved"
    /\ isInitialized
    /\ settings # DEFAULT_SETTINGS
    /\ Persisted(settings)
    /\ sEmitted = <<SettingsPayload("settingsLoaded", settings)>>

(* C20: until initialize() has completed the record is the defaults and    *)
(* cannot be mutated: the getters return the defaults, and updateSetting,  *)
(* updateSettings and resetToDefaults reject with the not-initialized      *)
(* error, memory and file unchanged.                                       *)
C20_DefaultsUntilReady ==
    /\ [](~isInitialized => getSettings = DEFAULT_SETTINGS
                            /\ \A key \in SettingsKeys : getSetting(key) = DEFAULT_SETTINGS[key])
    /\ [][(\E kind \in AutoSaveCalls : Called(kind)) /\ ~isInitialized
          => /\ sLast'.outcome = "rejected"
             /\ sLast'.error = "not initialized"
             /\ NothingHappened
             /\ ~isInitialized']_allVars

C20_Witness ==
    /\ sLast.step = "call"
    /\ sLast.call.kind = "updateSetting"
    /\ ObeysRule(sLast.call.key, sLast.call.value)
    /\ sLast.outcome = "rejected"
    /\ sLast.error = "not initialized"
    /\ ~isInitialized
    /\ \E i \in DOMAIN pending : pending[i].kind = "initialize" /\ pending[i].pc = "write"
    /\ getSettings = DEFAULT_SETTINGS


(* every duration of the record is, as a number, within the range of its key *)
DurationsInRange(record) ==
    \A key \in DurationKeys :
        /\ ToNumber(record[key]) # NaN
        /\ ToNumber(record[key]) >= SETTINGS_VALIDATION[key].min
        /\ ToNumber(record[key]) <= SETTINGS_VALIDATION[key].max

(* C21: whatever calls were made and however they ended, every duration in *)
(* memory lies within the range of its key, and so does every record the   *)
(* service writes to the file.                                             *)
C21_DurationsStayInRange ==
    /\ DurationsInRange(settings)
    /\ \A i \in DOMAIN pending :
          pending[i].pc = "write" => DurationsInRange(pending[i].content.rec)
    /\ sLast.step = "write" /\ sLast.io = "ok" => DurationsInRange(settingsFile.rec)

C21_Witness ==
    /\ isInitialized
    /\ sLast.step = "write"
    /\ sLast.io = "ok"
    /\ sLast.call.kind = "updateSettings"
    /\ settings.shortBreakDuration = Num(10)
    /\ settings.longBreakDuration = DEFAULT_SETTINGS.longBreakDuration
    /\ settingsFile = Stringify(settings)

----------------------------------------------------------------------------
(* Statistics: vocabulary and properties *)

(* the step resumed a call of this kind of the statistics service *)
StResumed(kind) ==
    /\ stLast'.step \in {"exists", "read", "backup", "mkdir", "write"}
    /\ stLast'.call.kind = kind

(* the step is a call of this method *)
StCalled(kind) == stLast'.step = "call" /\ stLast'.call.kind = kind

(* C22: when the backup or the write of resetStats fails, the call is     *)
(* rejected with the error and the record in memory is the one that was   *)
(* there when resetStats was called.                                      *)
C22_FailedResetRestoresRecord ==
    [][(StResumed("resetStats") /\ stLast'.io # "ok")
          => /\ stLast'.outcome = "rejected"
             /\ stLast'.error = "io"
             /\ stats' = stLast'.call.previousStats]_allVars

C22_Witness ==
    /\ stLast.step = "write"
    /\ stLast.call.kind = "resetStats"
    /\ stLast.io = "failed"
    /\ stLast.outcome = "rejected"
    /\ stats = [ThreeSessions EXCEPT !.workSessions = Num(4)]

(* the file holds the counters, accumulators and lastResetDate of the record *)
SameCounts(file, record) ==
    /\ file.exists /\ file.parsable
    /\ \A f \in NumericFields \cup {"lastResetDate"} :
           f \in file.present /\ file.rec[f] = StatsStringify(record).rec[f]

CountersZero(record) == \A f \in NumericFields : record[f] = Num(0)

(* C23: when resetStats resolves, the counters and accumulators are 0,    *)
(* lastResetDate is the time of the reset, the file holds the zeroed      *)
(* record, and a backup holds the record that was in memory when the      *)
(* reset was called.                                                      *)
C23_ResetZeroesAndBacksUpMemory ==
    [][(StResumed("resetStats") /\ stLast'.outcome = "resolved")
          => /\ CountersZero(stats')
             /\ stats'.lastResetDate = stLast'.call.resetDate
             /\ statsFile' = StatsStringify(stats')
             /\ \E backup \in statsBackups' :
                    SameCounts(backup, stLast'.call.previousStats)]_allVars

(* the file exists and readJsonFile returns null for it *)
StatsUnusable(file) == file.exists /\ ~StatsReadAsValid(file)

(* C24: when initialize resolves on a file that exists and fails          *)
(* validation, the defaults are in memory and in the file, and a backup   *)
(* holds the original file.                                               *)
C24_UnusableStatsFileBackedUp ==
    [][(/\ StResumed("initialize")
        /\ stLast'.outcome = "resolved"
        /\ StatsUnusable(stLast'.call.atCall))
          => /\ stats' = DEFAULT_STATS
             /\ statsFile' = StatsStringify(DEFAULT_STATS)
             /\ stLast'.call.atCall \in statsBackups']_allVars

(* What loadStats does with such a file: the defaults are adopted and     *)
(* persisted, and no backup is made.                                      *)
UnusableStatsFileOverwritten ==
    [][(/\ StResumed("initialize")
        /\ stLast'.outcome = "resolved"
        /\ StatsUnusable(stLast'.call.atCall))
          => /\ stats' = DEFAULT_STATS
             /\ statsFile' = StatsStringify(DEFAULT_STATS)
             /\ statsBackups' = {}]_allVars

(* C25: incrementSession and addTime called before the service is ready   *)
(* throw a not-initialized error and leave record, file and pending       *)
(* writes as they were; incrementSession with an unknown type throws and  *)
(* changes no counter.                                                    *)
C25_NotReadyOrUnknownTypeThrows ==
    [][/\ ((StCalled("incrementSession") \/ StCalled("addTime")) /\ ~statsInitialized)
            => /\ stLast'.outcome = "rejected"
               /\ stLast'.error = "not initialized"
               /\ stats' = stats
               /\ statsFile' = statsFile
               /\ statsPending' = statsPending
       /\ (StCalled("incrementSession") /\ stLast'.call.type \notin SessionTypes)
            => /\ stLast'.outcome = "rejected"
               /\ statsInitialized => stLast'.error = "unknown type"
               /\ stats' = stats
               /\ statsPending' = statsPending]_allVars

C25_Witness ==
    /\ stLast.step = "call"
    /\ stLast.call.kind = "incrementSession"
    /\ stLast.call.type = "unknown"
    /\ stLast.error = "unknown type"
    /\ stats = ThreeSessions

(* C26: addTime with minutes <= 0 on a ready service returns without      *)
(* throwing, changes no accumulator and starts no write.                  *)
C26_NonPositiveTimeIgnored ==
    [][(/\ StCalled("addTime")
        /\ statsInitialized
        /\ stLast'.call.minutes # NaN
        /\ stLast'.call.minutes <= 0)
          => /\ stLast'.outcome = "resolved"
             /\ stats' = stats
             /\ statsFile' = statsFile
             /\ statsPending' = statsPending]_allVars

C26_Witness ==
    /\ stLast.step = "call"
    /\ stLast.call.kind = "addTime"
    /\ stLast.call.minutes = -5
    /\ stLast.outcome = "resolved"
    /\ statsInitialized
    /\ stats = ThreeSessions

(* the call is an incrementSession or an addTime that passes the guards *)
Accumulates ==
    /\ statsInitialized
    /\ \/ StCalled("incrementSession") /\ stLast'.call.type \in SessionTypes
       \/ /\ StCalled("addTime")
          /\ stLast'.call.minutes # NaN
          /\ stLast'.call.minutes > 0

(* the field the call adds to, and how much *)
AccumulatedField ==
    IF stLast'.call.kind = "incrementSession" THEN CounterOf[stLast'.call.type]
    ELSE IF stLast'.call.type = "work" THEN "totalWorkTime" ELSE "totalBreakTime"

AccumulatedAmount ==
    IF stLast'.call.kind = "incrementSession" THEN 1 ELSE stLast'.call.minutes

(* C27: incrementSession and addTime change the record in memory and      *)
(* return before their write has run; when that write fails later, no     *)
(* error reaches a caller and the record in memory stays as it is.        *)
C27_AccumulationIsBestEffort ==
    [][/\ Accumulates
            => /\ stLast'.outcome = "resolved"
               /\ stats' = [stats EXCEPT ![AccumulatedField] =
                                Num(JsAdd(@.val, AccumulatedAmount))]
               /\ statsFile' = statsFile
               /\ Len(statsPending') = Len(statsPending) + 1
       /\ ((StResumed("incrementSession") \/ StResumed("addTime")) /\ stLast'.io # "ok")
            => /\ stLast'.outcome = "swallowed"
               /\ stats' = stats]_allVars

C27_Witness ==
    /\ stLast.step = "write"
    /\ stLast.call.kind = "incrementSession"
    /\ stLast.io = "failed"
    /\ stLast.outcome = "swallowed"
    /\ stats = [ThreeSessions EXCEPT !.workSessions = Num(4)]
    /\ statsFile = StatsStringify(ThreeSessions)

(* C28: when resetStats is never called, the last pending write of        *)
(* incrementSession/addTime has completed and none of them failed, the    *)
(* file holds the record that is in memory.                               *)
C28_WritesConverge ==
    (/\ stLast.step = "write"
     /\ stLast.call.kind \in {"incrementSession", "addTime"}
     /\ stLast.io = "ok"
     /\ statsPending = <<>>
     /\ ~statsFailed)
        => statsFile = StatsStringify(stats)

(* C29: a write replaces the file atomically: whenever a write of the     *)
(* settings settles, failed or not, the file holds what it held before    *)
(* or the complete new text.                                              *)
C29_WriteIsAtomicReplace ==
    [][sLast'.step = "write"
          => settingsFile' \in {settingsFile, sLast'.call.content}]_allVars

(* A write that reports success has put the complete text in the file,   *)
(* and one that fails leaves the old content or an unreadable file.       *)
WriteReplacesOrDestroys ==
    [][sLast'.step = "write"
          => IF sLast'.io = "ok" THEN settingsFile' = sLast'.call.content
             ELSE settingsFile' \in {settingsFile, FileGarbage}]_allVars

(* every counter and accumulator of the record in memory is a number >= 0 *)
CountersNonNegative ==
    \A f \in NumericFields :
        stats[f].typeof = "number" /\ stats[f].val # NaN /\ stats[f].val >= 0

(* a counter or accumulator gets smaller only in a step of a resetStats   *)
(* call that does not fail in that step                                   *)
DecreaseOnlyByReset ==
    [][(\E f \in NumericFields :
            /\ stats[f].val # NaN
            /\ stats'[f].val # NaN
            /\ stats'[f].val < stats[f].val)
          => (StResumed("resetStats") /\ stLast'.outcome # "rejected")]_allVars

(* C30: in every reachable state the counters and accumulators are >= 0,  *)
(* and one of them decreases only through a resetStats that succeeds.     *)
C30_CountersNonNegativeAndMonotone == []CountersNonNegative /\ DecreaseOnlyByReset

----------------------------------------------------------------------------
(* The timer engine and its collaborators: further properties *)

(* C31: after a complete event, with the timer already cleared, stopTimer *)
(* and destroy change nothing, emit nothing and do not throw, and the     *)
(* completion handling itself does nothing on a cleared timer; no timer   *)
(* completes twice.                                                       *)
C31_StopAfterCompleteTolerated ==
    [][/\ (completions = 1 /\ timer = NullTimer
             /\ lastOp'.op \in {"stopTimer", "destroy"})
            => /\ lastOp'.outcome # "throw"
               /\ emitted' = <<>>
               /\ timer' = NullTimer
               /\ intervals' = intervals
               /\ intervalId' = intervalId
               /\ completions' = 1
       /\ timer = NullTimer => onTimerComplete(Svc) = Svc
       /\ completions' <= 1]_allVars

C31_Witness ==
    /\ lastOp.op = "stopTimer"
    /\ lastOp.outcome = "noop"
    /\ completions = 1
    /\ timer = NullTimer
    /\ emitted = <<>>

(* the complete events of the step *)
Completed == Named(emitted', "complete")

(* C32: the minutes carried by complete are the whole minutes of wall     *)
(* time between the start of the timer and its completion, time spent     *)
(* paused included; a timer that ticked down without waiting reports its  *)
(* configured duration.                                                   *)
C32_CompleteCarriesWallMinutes ==
    [][(lastOp'.op = "tick" /\ Completed # <<>>)
          => /\ Len(Completed) = 1
             /\ Completed[1].type = timer.type
             /\ Completed[1].arg = (sinceStart + TickSeconds) \div SecondsPerMinute
             /\ sinceStart = tickCount => Completed[1].arg = timer.duration]_allVars

(* a timer completes and reports one minute *)
C32_Witness ==
    /\ lastOp.op = "tick"
    /\ Named(emitted, "complete") # <<>>
    /\ Named(emitted, "complete")[1].arg = 1
    /\ \E e \in {emitted[i] : i \in DOMAIN emitted} : e.name = "tick" /\ e.arg = 0
    /\ path = <<"running", "completed", "idle">>

(* the step is a tick of the timer engine that emits complete *)
CompletesNow ==
    /\ timer # NullTimer
    /\ lastOp'.op = "tick"
    /\ Completed # <<>>

(* the record after one session of the type and its minutes are credited *)
Credited(record, type, minutes) ==
    LET counted == [record EXCEPT ![CounterOf[type]] = Num(@.val + 1)]
        field   == IF type = "work" THEN "totalWorkTime" ELSE "totalBreakTime"
    IN  IF minutes > 0 THEN [counted EXCEPT ![field] = Num(@.val + minutes)]
        ELSE counted

(* C33: every complete(type, minutes) adds one to the counter of the type *)
(* and, when minutes > 0, the minutes to totalWorkTime (work) or          *)
(* totalBreakTime (breaks); no other step of the timer engine changes the *)
(* statistics.                                                            *)
C33_CompleteCreditsOneSession ==
    [][/\ CompletesNow
            => stats' = Credited(stats, Completed[1].type, Completed[1].arg)
       /\ (~CompletesNow /\ TimerServiceCreated) => stats' = stats]_allVars

(* What the application does: the session is credited when the statistics *)
(* service is ready, and dropped with a log entry when it is not.         *)
CompleteCreditedWhenReady ==
    [][/\ (CompletesNow /\ statsInitialized)
            => stats' = Credited(stats, Completed[1].type, Completed[1].arg)
       /\ (CompletesNow /\ ~statsInitialized)
            => (stats' = stats /\ stLast'.outcome = "logged")
       /\ (~CompletesNow /\ TimerServiceCreated) => stats' = stats]_allVars

(* the file is a complete, well-typed record of another version *)
OtherVersionOnly(file) == file \in ValidStatsFiles /\ file.rec.version # APP_VERSION

(* C34: initialize on a file whose only defect is its version resolves    *)
(* with the file's counters, accumulators and lastResetDate in memory     *)
(* under the current version, and makes no backup and no write.           *)
C34_OtherVersionAccepted ==
    [][(StResumed("initialize") /\ OtherVersionOnly(stLast'.call.atCall))
          => /\ stLast'.step \in {"exists", "read"}
             /\ statsBackups' = {}
             /\ statsFile' = stLast'.call.atCall
             /\ stLast'.step = "read"
                   => /\ stLast'.outcome = "resolved"
                      /\ statsInitialized'
                      /\ stats' = [stLast'.call.atCall.rec
                                       EXCEPT !.version = APP_VERSION]
                      /\ statsPending' = <<>>]_allVars

C34_Witness ==
    /\ stLast.step = "read"
    /\ stLast.call.kind = "initialize"
    /\ OtherVersionOnly(stLast.call.atCall)
    /\ statsInitialized
    /\ stats = ThreeSessions
    /\ statsFile.rec.version = "0.9.0"

(* C35: initialize on a service that is already initialized returns at    *)
(* once: it starts no read of the file and leaves the record, with the    *)
(* increments made since the first initialize, as it is.                  *)
C35_InitializeIdempotent ==
    [][(StCalled("initialize") /\ statsInitialized)
          => /\ stLast'.outcome = "resolved"
             /\ statsInitialized'
             /\ stats' = stats
             /\ statsFile' = statsFile
             /\ statsBackups' = statsBackups
             /\ statsPending' = statsPending]_allVars

C35_Witness ==
    /\ stLast.step = "call"
    /\ stLast.call.kind = "initialize"
    /\ stLast.outcome = "resolved"
    /\ statsInitialized
    /\ stats = [ThreeSessions EXCEPT !.workSessions = Num(4)]
    /\ statsFile = StatsStringify(ThreeSessions)

(* the engine after the tick when no listener calls it back *)
TickAlone ==
    intervalCallback([Svc EXCEPT !.sinceStart = IF timer = NullTimer THEN 0
                                               ELSE @ + TickSeconds])

(* C36: a tick, its completion included, leaves the engine as it does     *)
(* when no listener calls back: whatever the listeners of tick and        *)
(* complete call, the timer and the schedule are those of the tick alone, *)
(* no start, stop, pause or resume is announced, and nothing is thrown.   *)
C36_TickNotReentered ==
    [][lastOp'.op = "tick"
          => /\ timer' = TickAlone.timer
             /\ intervalId' = TickAlone.intervalId
             /\ intervals' = TickAlone.intervals
             /\ lastOp'.outcome # "throw"
             /\ \A i \in DOMAIN emitted' :
                   emitted'[i].name \in {"tick", "complete"}]_allVars

(* With passive listeners the two forms of the handlers agree *)
PassiveListenersAgree ==
    /\ intervalCallbackReentered(Svc, NoReaction, NoReaction) = intervalCallback(Svc)
    /\ onTimerCompleteReentered(Svc, NoReaction) = onTimerComplete(Svc)

(* C37: between the handlers, an interval is scheduled exactly when the   *)
(* timer is Running, it is the one the engine holds, and there is never   *)
(* more than one.                                                         *)
C37_ScheduledIffRunning ==
    /\ Cardinality(intervals) <= 1
    /\ intervals # {} <=> Running(timer)
    /\ intervals # {} => intervals = {intervalId}
    /\ intervals = {} => intervalId = NoInterval

(* a timer that was paused and resumed is running on a single interval *)
C37_Witness ==
    /\ lastOp.op = "resumeTimer"
    /\ lastOp.outcome = "ok"
    /\ Running(timer)
    /\ Cardinality(intervals) = 1
    /\ timer.remainingTime < timer.duration * SecondsPerMinute

(* the step is a tick whose complete listener called startTimer *)
RestartedOnComplete ==
    /\ lastOp'.op = "tick"
    /\ lastOp'.config.onComplete.op = "startTimer"

(* C38: when a listener of complete calls startTimer(config), the timer   *)
(* it started is there when the completion has finished: Running, with    *)
(* its full remaining time, on a scheduled interval.                      *)
C38_RestartOnCompleteSurvives ==
    [][RestartedOnComplete
          => LET config == lastOp'.config.onComplete.config
             IN  /\ timer' = [type |-> config.type,
                              duration |-> config.duration.val,
                              remainingTime |-> config.duration.val * SecondsPerMinute,
                              state |-> "running"]
                 /\ intervalId' # NoInterval
                 /\ intervals' = {intervalId'}]_allVars

(* What the engine does: the listener's timer is started and announced,   *)
(* then discarded by the completion, and its interval stays scheduled     *)
(* until it fires once.                                                   *)
RestartOnCompleteDiscarded ==
    [][RestartedOnComplete
          => /\ Len(Named(emitted', "start")) = 1
             /\ timer' = NullTimer
             /\ intervalId' # NoInterval
             /\ intervals' = {intervalId'}]_allVars

(* C39: under autosave, whenever no call of the settings service is in    *)
(* flight, the record in memory is the record the settings file holds     *)
(* (a file that a failed write has destroyed holds none and is left out). *)
C39_MemoryEqualsFileWhenQuiet ==
    (/\ isInitialized
     /\ autoSaveEnabled
     /\ pending = <<>>
     /\ settingsFile.exists
     /\ settingsFile.parsable)
        => Persisted(settings)

(* what a counter or accumulator held when the resetStats call resumed by *)
(* this step last assigned the record: the copy it took when it was       *)
(* called, or zero once its backup had succeeded                          *)
ResetBaseline(f) ==
    IF stLast'.step = "backup" THEN stLast'.call.previousStats[f].val ELSE 0

(* C40: an increment or a time addition applied while a resetStats call   *)
(* was in flight is still in the record in memory after that call rejects.*)
C40_FailedResetKeepsConcurrentIncrement ==
    [][(StResumed("resetStats") /\ stLast'.outcome = "rejected")
          => \A f \in NumericFields :
                 (/\ stats[f].val # NaN
                  /\ stLast'.call.previousStats[f].val # NaN
                  /\ stats[f].val > ResetBaseline(f))
                     => stats'[f].val = stLast'.call.previousStats[f].val
                                          + (stats[f].val - ResetBaseline(f))]_allVars

====
